---- MODULE Spec2Model ----
(***************************************************************************)
(* PantsMUD connection layer.                                              *)
(*                                                                         *)
(*   MUDConnection          src/mud/network.py   line decoder, state stack *)
(*   State                  src/mud/state.py                               *)
(*   WebSocketConnection    src/mud/protocol/websocket.py                  *)
(*   FlashPolicyConnection  src/mud/protocol/flash.py                      *)
(*   Store                  src/mud/store.py                               *)
(*                                                                         *)
(* A Python 2 str is modelled as the sequence of its bytes, each byte a    *)
(* one-element name: the character itself for printable ASCII (the back    *)
(* quote excepted), "xNN" (two hex digits) otherwise; LF is "x0A".         *)
(* A Python None is the string "None"; an exception that leaves a method   *)
(* is recorded by its class name, "none" when the method returns normally. *)
(***************************************************************************)
EXTENDS Integers, Sequences, FiniteSets, Bags, TLC

(***************************************************************************)
(* Bounds of the model.                                                    *)
(***************************************************************************)
MaxData == 3        \* longest chunk handed to on_telnet_data
MaxReads == 2       \* number of on_telnet_data calls in a behaviour
MaxStack == 2       \* deepest state stack a caller builds
MaxWSReads == 2     \* number of handle_read calls in a behaviour
MaxDeviations == 1  \* parts of the example handshake request that are varied
MaxFrame == 2       \* longest chunk of frame bytes handed to handle_read
MaxChunk == 2       \* longest chunk drawn from StreamBytes
MaxFrameReads == 2  \* number of handle_read calls after the handshake, in SpecFrames
MaxPayload == 2     \* longest payload handed to send
MaxSends == 2       \* number of send calls in a behaviour
MaxKey == 2         \* longest key drawn from KeyChars
MaxCalls == 2       \* number of challenge responses built in a behaviour
MaxKeyedReads == 2  \* reads of a handshake with drawn keys
MaxPieces == 3      \* pieces the read of a policy connection is put together from
MaxStoreCalls == 5  \* number of calls made on the store in a behaviour

LF == "x0A"
Chars == {"a", LF}
States == {"s1", "s2"}
None == "None"

RECURSIVE SeqsUpTo(_, _)
SeqsUpTo(S, n) ==
    IF n = 0 THEN {<<>>}
    ELSE LET shorter == SeqsUpTo(S, n - 1)
         IN  shorter \cup {Append(q, x) : q \in {r \in shorter : Len(r) = n - 1}, x \in S}

Chunks == SeqsUpTo(Chars, MaxData)

Range(q) == {q[i] : i \in 1..Len(q)}

RECURSIVE Reverse(_)
Reverse(q) == IF q = <<>> THEN <<>> ELSE Append(Reverse(Tail(q)), Head(q))

RECURSIVE Concat(_)
Concat(qs) ==
    IF Len(qs) = 0 THEN <<>>
    ELSE IF Len(qs) = 1 THEN qs[1]
    ELSE LET m == Len(qs) \div 2
         IN  Concat(SubSeq(qs, 1, m)) \o Concat(SubSeq(qs, m + 1, Len(qs)))

RECURSIVE SeqToBag(_)
SeqToBag(q) == IF q = <<>> THEN EmptyBag ELSE SeqToBag(Tail(q)) (+) SetToBag({Head(q)})

VARIABLES
    line_inbuf,     \* MUDConnection.line_inbuf: list of lines
    state_stack,    \* MUDConnection.state_stack: list of State objects
    reads,          \* history: each on_telnet_data call, its chunk and the stack it met
    delivered,      \* history: every on_readline call, in call order
    rd,             \* history: the last on_telnet_data call
    hist,           \* history: the last two stack operations
    published,      \* history: the events handed to publisher.publish, in call order
    focus,          \* history: the States that got on_gainfocus and no on_losefocus since
    handshake,      \* WebSocketConnection.handshake: is the handshake complete?
    inbuf,          \* WebSocketConnection.inbuf: raw bytes not yet framed
    packet_inbuf,   \* WebSocketConnection.packet_inbuf: received packets
    written,        \* the data of every Connection.write call, in call order
    closed,         \* Connection.close was called
    ws,             \* history: the last handle_read call, its data and outcome
    stream,         \* history: every byte read in framing mode, in arrival order
    snd,            \* history: the last send call: its data, mode and place in written
    ch,             \* the keys and final bytes of a challenge, and the response to it
    fp,             \* a FlashPolicyConnection: its outbuf, whether closed, its reads
    st              \* the Store: its flags, the database file and the open transaction

mudvars == <<line_inbuf, state_stack, reads, delivered, rd, hist, published, focus>>
wsvars == <<handshake, inbuf, packet_inbuf, written, closed, ws, stream, snd>>
vars == <<line_inbuf, state_stack, reads, delivered, rd, hist, published, focus,
          handshake, inbuf, packet_inbuf, written, closed, ws, stream, snd, ch, fp, st>>

(***************************************************************************)
(* str.find(c): index of the first c, counted from 1; 0 when absent.       *)
(***************************************************************************)
find(data, c) ==
    IF c \in Range(data)
    THEN CHOOSE i \in 1..Len(data) : data[i] = c /\ \A j \in 1..(i - 1) : data[j] # c
    ELSE 0

(***************************************************************************)
(* The splitting loop of on_telnet_data:                                   *)
(*     while '\n' in data:                                                 *)
(*         line, data = data.split('\n', 1)                                *)
(*         self.line_inbuf.append(line)                                    *)
(* The result is the list of lines appended; what is left of data after    *)
(* the last line feed is a local that the method drops on return.          *)
(***************************************************************************)
RECURSIVE split_lines(_)
split_lines(data) ==
    IF LF \in Range(data)
    THEN LET i == find(data, LF)
         IN  <<SubSeq(data, 1, i - 1)>> \o split_lines(SubSeq(data, i + 1, Len(data)))
    ELSE <<>>

(***************************************************************************)
(* The focus callbacks of State (state.py), as entries of a call log, and  *)
(* the set of States in focus after the calls of a log, oldest first.      *)
(***************************************************************************)
Lose(s) == <<"on_losefocus", s>>
Gain(s) == <<"on_gainfocus", s>>

RECURSIVE after_callbacks(_, _)
after_callbacks(held, calls) ==
    IF calls = <<>> THEN held
    ELSE after_callbacks(IF Head(calls)[1] = "on_gainfocus"
                         THEN held \cup {Head(calls)[2]}
                         ELSE held \ {Head(calls)[2]},
                         Tail(calls))

(***************************************************************************)
(* list.pop() on the state stack: the removed element and the rest, or     *)
(* IndexError on an empty list.                                            *)
(***************************************************************************)
list_pop(stack) ==
    IF Len(stack) = 0
    THEN [exc |-> "IndexError", value |-> None, rest |-> stack]
    ELSE [exc |-> "none", value |-> stack[Len(stack)], rest |-> SubSeq(stack, 1, Len(stack) - 1)]

(***************************************************************************)
(* MUDConnection.push_state: self.state_stack.push(state).  A Python list  *)
(* has no attribute push: the attribute lookup raises AttributeError and   *)
(* nothing is appended.  No focus callback is invoked.                     *)
(***************************************************************************)
push_state_result(stack, state) ==
    [stack |-> stack, ret |-> None, raised |-> "AttributeError", focus |-> <<>>]

(***************************************************************************)
(* MUDConnection.pop_state: list.pop() guarded by except IndexError.       *)
(* No focus callback is invoked.                                           *)
(***************************************************************************)
pop_state_result(stack) ==
    LET p == list_pop(stack)
    IN  IF p.exc = "IndexError"
        THEN [stack |-> stack, ret |-> None, raised |-> "none", focus |-> <<>>]
        ELSE [stack |-> p.rest, ret |-> p.value, raised |-> "none", focus |-> <<>>]

(***************************************************************************)
(* MUDConnection.replace_state: overwrite state_stack[-1]; on IndexError   *)
(* call push_state, whose AttributeError leaves the method.                *)
(***************************************************************************)
replace_state_result(stack, state) ==
    IF Len(stack) = 0
    THEN LET p == push_state_result(stack, state)
         IN  IF p.raised # "none"
             THEN p
             ELSE [stack |-> p.stack, ret |-> None, raised |-> "none", focus |-> p.focus]
    ELSE [stack  |-> [stack EXCEPT ![Len(stack)] = state],
          ret    |-> stack[Len(stack)],
          raised |-> "none",
          focus  |-> <<>>]

(***************************************************************************)
(* State.on_readline(line).  The base class does nothing (pass); s1 and s2 *)
(* are such states.  A game puts its own subclasses on the stack, and      *)
(* their handlers run inside the dispatch loop, on the same connection:    *)
(*     popper     self.connection.pop_state()                              *)
(*     replacer   self.connection.replace_state(s2)                        *)
(*     pusher     self.connection.push_state(s2)                           *)
(*     thrower    raise ValueError                                         *)
(*     parser     line.split()[0], the first word of the line, which       *)
(*                raises IndexError on a line without a word               *)
(* The result is the stack the handler leaves and the exception that       *)
(* leaves the handler, "none" when it returns.                             *)
(***************************************************************************)
Handlers == {"popper", "replacer", "pusher", "thrower", "parser"}

on_readline(state, line, stack) ==
    CASE state = "popper" ->
             LET r == pop_state_result(stack) IN [stack |-> r.stack, exc |-> r.raised]
      [] state = "replacer" ->
             LET r == replace_state_result(stack, "s2")
             IN  [stack |-> r.stack, exc |-> r.raised]
      [] state = "pusher" ->
             LET r == push_state_result(stack, "s2")
             IN  [stack |-> r.stack, exc |-> r.raised]
      [] state = "thrower" -> [stack |-> stack, exc |-> "ValueError"]
      [] state = "parser" ->
             [stack |-> stack,
              exc   |-> IF \A i \in 1..Len(line) : line[i] \in {" ", "x09", LF, "x0B", "x0C", "x0D"}
                        THEN "IndexError" ELSE "none"]
      [] OTHER -> [stack |-> stack, exc |-> "none"]

(***************************************************************************)
(* Two slips of the dispatch statement.  pop_first evaluates the argument  *)
(* line_inbuf.pop() before the callee, so a line is taken off the buffer   *)
(* even when no state is there to receive it.  to_bottom indexes the stack *)
(* with [0] instead of [-1].                                               *)
(***************************************************************************)
dispatch_one_pop_first(buf, stack, out) ==
    IF Len(stack) = 0
    THEN [buf |-> SubSeq(buf, 1, Len(buf) - 1), stack |-> stack, out |-> out,
          exc |-> "IndexError"]
    ELSE [buf   |-> SubSeq(buf, 1, Len(buf) - 1),
          stack |-> stack,
          out   |-> Append(out, [state |-> stack[Len(stack)], line |-> buf[Len(buf)],
                                 stack |-> stack]),
          exc   |-> "none"]

dispatch_one_to_bottom(buf, stack, out) ==
    IF Len(stack) = 0
    THEN [buf |-> buf, stack |-> stack, out |-> out, exc |-> "IndexError"]
    ELSE [buf   |-> SubSeq(buf, 1, Len(buf) - 1),
          stack |-> stack,
          out   |-> Append(out, [state |-> stack[1], line |-> buf[Len(buf)],
                                 stack |-> stack]),
          exc   |-> "none"]

(***************************************************************************)
(* One evaluation of                                                       *)
(*     self.state_stack[-1].on_readline(self.line_inbuf.pop())             *)
(* on a non-empty buffer.  Python evaluates the callee first, so on an     *)
(* empty stack state_stack[-1] raises IndexError before line_inbuf.pop()   *)
(* runs.  list.pop() takes the LAST element, and takes it before the       *)
(* handler is entered.  The result carries the exception of the statement, *)
(* the handler's own included.                                             *)
(***************************************************************************)
dispatch_one(buf, stack, out) ==
    IF Len(stack) = 0
    THEN [buf |-> buf, stack |-> stack, out |-> out, exc |-> "IndexError"]
    ELSE LET top  == stack[Len(stack)]
             line == buf[Len(buf)]
             h    == on_readline(top, line, stack)
         IN  [buf   |-> SubSeq(buf, 1, Len(buf) - 1),
              stack |-> h.stack,
              out   |-> Append(out, [state |-> top, line |-> line, stack |-> stack]),
              exc   |-> h.exc]

(***************************************************************************)
(* The dispatch loop of on_telnet_data:                                    *)
(*     try:                                                                *)
(*         while len(self.line_inbuf) > 0: <dispatch_one>                  *)
(*     except IndexError:                                                  *)
(*         return None                                                     *)
(* The except clause catches every IndexError of the statement, whether    *)
(* state_stack[-1] raised it or the handler; any other exception leaves    *)
(* on_telnet_data.                                                         *)
(***************************************************************************)
RECURSIVE dispatch(_, _, _)
dispatch(buf, stack, out) ==
    IF Len(buf) = 0
    THEN [buf |-> buf, stack |-> stack, out |-> out, raised |-> "none"]
    ELSE LET r == dispatch_one(buf, stack, out)
         IN  IF r.exc = "IndexError"
             THEN [buf |-> r.buf, stack |-> r.stack, out |-> r.out, raised |-> "none"]
             ELSE IF r.exc # "none"
             THEN [buf |-> r.buf, stack |-> r.stack, out |-> r.out, raised |-> r.exc]
             ELSE dispatch(r.buf, r.stack, r.out)

(***************************************************************************)
(* History of stack operations: the last two, oldest first.                *)
(***************************************************************************)
OpRecord(op, arg, pre, r) ==
    [op |-> op, arg |-> arg, pre |-> pre, post |-> r.stack,
     ret |-> r.ret, raised |-> r.raised, focus |-> r.focus]

Remember(h, rec) == IF Len(h) < 2 THEN Append(h, rec) ELSE <<h[2], rec>>

NoRead == [n |-> 0, pre_buf |-> <<>>, pre_out |-> 0, raised |-> "none"]
NoSend == [n |-> 0, data |-> <<>>, handshake |-> FALSE, at |-> 0]
NoFlash == [outbuf |-> <<>>, closed |-> FALSE, reads |-> <<>>, calls |-> <<>>]
NoStore == [connected |-> FALSE, dirty |-> FALSE, subscribed |-> FALSE,
            file |-> [k \in {"k1", "k2"} |-> <<>>],
            tx |-> [k \in {"k1", "k2"} |-> <<>>],
            pre |-> [k \in {"k1", "k2"} |-> <<>>],
            n |-> 0, last |-> "none", raised |-> "none"]
NoChallenge == [key1 |-> <<>>, key2 |-> <<>>, final_bytes |-> <<>>, results |-> <<>>]

Init ==
    /\ line_inbuf = <<>>
    /\ state_stack = <<>>
    /\ reads = <<>>
    /\ delivered = <<>>
    /\ rd = NoRead
    /\ hist = <<>>
    /\ handshake = FALSE
    /\ inbuf = <<>>
    /\ packet_inbuf = <<>>
    /\ written = <<>>
    /\ closed = FALSE
    /\ ws = [n |-> 0, data |-> <<>>, framing |-> FALSE, raised |-> "none"]
    /\ stream = <<>>
    /\ snd = NoSend
    /\ published = <<>>
    /\ focus = {}
    /\ ch = NoChallenge
    /\ fp = NoFlash
    /\ st = NoStore

(***************************************************************************)
(* MUDConnection.on_telnet_data(data).                                     *)
(***************************************************************************)
on_telnet_data(data) ==
    /\ Len(reads) < MaxReads
    /\ LET buf == line_inbuf \o split_lines(data)
           r   == dispatch(buf, state_stack, delivered)
       IN  /\ line_inbuf' = r.buf
           /\ state_stack' = r.stack
           /\ delivered' = r.out
           /\ rd' = [n |-> Len(reads) + 1, pre_buf |-> line_inbuf,
                     pre_out |-> Len(delivered), raised |-> r.raised]
    /\ reads' = Append(reads, [data |-> data, stack |-> state_stack])
    /\ UNCHANGED <<hist, published, focus, wsvars, ch, fp, st>>

push_state(state) ==
    /\ LET r == push_state_result(state_stack, state)
       IN  /\ state_stack' = r.stack
           /\ hist' = Remember(hist, OpRecord("push_state", state, state_stack, r))
           /\ focus' = after_callbacks(focus, r.focus)
    /\ UNCHANGED <<line_inbuf, reads, delivered, rd, published, wsvars, ch, fp, st>>

pop_state ==
    /\ LET r == pop_state_result(state_stack)
       IN  /\ state_stack' = r.stack
           /\ hist' = Remember(hist, OpRecord("pop_state", None, state_stack, r))
           /\ focus' = after_callbacks(focus, r.focus)
    /\ UNCHANGED <<line_inbuf, reads, delivered, rd, published, wsvars, ch, fp, st>>

replace_state(state) ==
    /\ LET r == replace_state_result(state_stack, state)
       IN  /\ state_stack' = r.stack
           /\ hist' = Remember(hist, OpRecord("replace_state", state, state_stack, r))
           /\ focus' = after_callbacks(focus, r.focus)
    /\ UNCHANGED <<line_inbuf, reads, delivered, rd, published, wsvars, ch, fp, st>>

(***************************************************************************)
(* state_stack is a public attribute, a plain list (network.py:38).  The   *)
(* connection's own methods never fill it: push_state raises before it     *)
(* appends (network.py:60) and replace_state on an empty stack ends in     *)
(* push_state (network.py:75).  A State is on the stack only when the code *)
(* that holds the connection has put it there itself, with                 *)
(*     connection.state_stack.append(state)                                *)
(* which is list.append: it adds the element at the end, cannot fail and   *)
(* calls no method of the State.  The stack is kept to MaxStack entries.   *)
(***************************************************************************)
stack_append(state) ==
    /\ Len(state_stack) < MaxStack
    /\ state_stack' = Append(state_stack, state)
    /\ hist' = Remember(hist, [op |-> "append", arg |-> state, pre |-> state_stack,
                             post |-> Append(state_stack, state), ret |-> None,
                             raised |-> "none", focus |-> <<>>])
    /\ UNCHANGED <<line_inbuf, reads, delivered, rd, published, focus, wsvars, ch, fp, st>>

(***************************************************************************)
(* Spec: the line decoder.  Chunks arrive while a holder of the connection *)
(* puts states on the stack.                                               *)
(***************************************************************************)
Next ==
    \/ \E data \in Chunks : on_telnet_data(data)
    \/ \E s \in States : stack_append(s)

Spec == Init /\ [][Next]_vars

(***************************************************************************)
(* SpecStack: the state stack operations, in any order.                    *)
(***************************************************************************)
NextStack ==
    \/ \E s \in States : push_state(s)
    \/ pop_state
    \/ \E s \in States : replace_state(s)
    \/ \E s \in States : stack_append(s)

SpecStack == Init /\ [][NextStack]_vars

(***************************************************************************)
(*                 WebSocketConnection (draft 76)                          *)
(***************************************************************************)

(***************************************************************************)
(* Bytes.  chr(k) names byte k; ord is its inverse.                        *)
(***************************************************************************)
Printable ==
    <<" ", "!", "\"", "#", "$", "%", "&", "'", "(", ")", "*", "+", ",", "-", ".", "/",
      "0", "1", "2", "3", "4", "5", "6", "7", "8", "9", ":", ";", "<", "=", ">", "?",
      "@", "A", "B", "C", "D", "E", "F", "G", "H", "I", "J", "K", "L", "M", "N", "O",
      "P", "Q", "R", "S", "T", "U", "V", "W", "X", "Y", "Z", "[", "\\", "]", "^", "_",
      "x60", "a", "b", "c", "d", "e", "f", "g", "h", "i", "j", "k", "l", "m", "n", "o",
      "p", "q", "r", "s", "t", "u", "v", "w", "x", "y", "z", "{", "|", "}", "~">>

HexDigit == <<"0", "1", "2", "3", "4", "5", "6", "7", "8", "9", "A", "B", "C", "D", "E", "F">>

chr(k) ==
    IF k \in 32..126 THEN Printable[k - 31]
    ELSE "x" \o HexDigit[(k \div 16) + 1] \o HexDigit[(k % 16) + 1]

ByteName == [k \in 0..255 |-> chr(k)]
Bytes == {ByteName[k] : k \in 0..255}
ByteValue == [c \in Bytes |-> CHOOSE k \in 0..255 : ByteName[k] = c]

ord(c) == ByteValue[c]

CR == "x0D"
NUL == "x00"
XFF == "xFF"
CRLF == <<CR, LF>>

(***************************************************************************)
(* Python 2 str methods used by the handshake code.                        *)
(***************************************************************************)
\* s.find(sub): position of the first occurrence, counted from 1; 0 if none.
str_find(s, sub) ==
    LET hits == {i \in 1..(Len(s) - Len(sub) + 1) : SubSeq(s, i, i + Len(sub) - 1) = sub}
    IN  IF hits = {} THEN 0 ELSE CHOOSE i \in hits : \A j \in hits : i <= j

\* s.split(sep)
RECURSIVE str_split(_, _)
str_split(s, sep) ==
    LET i == str_find(s, sep)
    IN  IF i = 0 THEN <<s>>
        ELSE <<SubSeq(s, 1, i - 1)>> \o str_split(SubSeq(s, i + Len(sep), Len(s)), sep)

\* s.split(sep, 1), for s that contains sep
str_split1(s, sep) ==
    LET i == str_find(s, sep)
    IN  <<SubSeq(s, 1, i - 1), SubSeq(s, i + Len(sep), Len(s))>>

\* c.isspace(), c.isdigit()
Whitespace == {" ", "x09", "x0A", "x0B", "x0C", "x0D"}
isspace(c) == c \in Whitespace
Digits == {"0", "1", "2", "3", "4", "5", "6", "7", "8", "9"}
isdigit(c) == c \in Digits

\* s.split(): the maximal runs of non-whitespace
RECURSIVE str_split_ws(_)
str_split_ws(s) ==
    IF s = <<>> THEN <<>>
    ELSE IF isspace(Head(s)) THEN str_split_ws(Tail(s))
    ELSE LET stops == {i \in 1..Len(s) : isspace(s[i])}
             n     == IF stops = {} THEN Len(s)
                      ELSE (CHOOSE i \in stops : \A j \in stops : i <= j) - 1
         IN  <<SubSeq(s, 1, n)>> \o str_split_ws(SubSeq(s, n + 1, Len(s)))

\* s.lower()
lower_char(c) == IF ord(c) \in 65..90 THEN chr(ord(c) + 32) ELSE c
str_lower(s) == [i \in 1..Len(s) |-> lower_char(s[i])]

\* s.startswith(c)
startswith(s, c) == Len(s) > 0 /\ s[1] = c

\* Words of the protocol, spelled out.
T_GET == <<"G", "E", "T">>
T_HTTP11 == <<"H", "T", "T", "P", "/", "1", ".", "1">>
T_websocket == <<"w", "e", "b", "s", "o", "c", "k", "e", "t">>
T_upgrade == <<"u", "p", "g", "r", "a", "d", "e">>
T_Upgrade == <<"U", "p", "g", "r", "a", "d", "e">>
T_Connection == <<"C", "o", "n", "n", "e", "c", "t", "i", "o", "n">>
T_Host == <<"H", "o", "s", "t">>
T_Origin == <<"O", "r", "i", "g", "i", "n">>
T_SecWebSocket == <<"S", "e", "c", "-", "W", "e", "b", "S", "o", "c", "k", "e", "t", "-">>
T_Key1 == T_SecWebSocket \o <<"K", "e", "y", "1">>
T_Key2 == T_SecWebSocket \o <<"K", "e", "y", "2">>
T_Protocol == T_SecWebSocket \o <<"P", "r", "o", "t", "o", "c", "o", "l">>

(***************************************************************************)
(* websocket_validate_handshake(handshake), handshake a list of lines.     *)
(* The result is res = "ok" with path, final_bytes and raw_fields, or      *)
(* res = "False", or res = "ValueError" when get, path, http = ...split()  *)
(* does not unpack three values.                                           *)
(***************************************************************************)
HandshakeForm(res, path, final_bytes, raw_fields) ==
    [res |-> res, path |-> path, final_bytes |-> final_bytes, raw_fields |-> raw_fields]

websocket_validate_handshake(lines) ==
    IF Len(lines) < 3 THEN HandshakeForm("False", <<>>, <<>>, <<>>)
    ELSE LET header == Head(lines)
             rest   == Tail(lines)
             words  == str_split_ws(header)
         IN  IF Len(words) # 3 THEN HandshakeForm("ValueError", <<>>, <<>>, <<>>)
             ELSE IF words[1] # T_GET THEN HandshakeForm("False", <<>>, <<>>, <<>>)
             ELSE IF words[3] # T_HTTP11 THEN HandshakeForm("False", <<>>, <<>>, <<>>)
             ELSE IF ~startswith(words[2], "/") THEN HandshakeForm("False", <<>>, <<>>, <<>>)
             ELSE LET blank       == rest[Len(rest) - 1]
                      final_bytes == rest[Len(rest)]
                  IN  IF blank # <<>> THEN HandshakeForm("False", <<>>, <<>>, <<>>)
                      ELSE IF Len(final_bytes) # 8
                           THEN HandshakeForm("False", <<>>, <<>>, <<>>)
                      ELSE HandshakeForm("ok", words[2], final_bytes,
                                         SubSeq(rest, 1, Len(rest) - 2))

(***************************************************************************)
(* websocket_validate_fields(raw_fields).  The dict fields is a function   *)
(* from names to values; a repeated name keeps its last value.  The result *)
(* is res = "ok" with the dict, or res = "False".                          *)
(***************************************************************************)
permitted == {chr(k) : k \in 33..126} \ {":"}

FieldSep == <<":", " ">>

field_name(raw_field) == str_split1(raw_field, FieldSep)[1]
field_value(raw_field) == str_split1(raw_field, FieldSep)[2]

fields_dict(raw_fields) ==
    LET names == {field_name(raw_fields[i]) : i \in 1..Len(raw_fields)}
        last(n) == CHOOSE i \in 1..Len(raw_fields) :
                       /\ field_name(raw_fields[i]) = n
                       /\ \A j \in (i + 1)..Len(raw_fields) : field_name(raw_fields[j]) # n
    IN  [n \in names |-> field_value(raw_fields[last(n)])]

Mandatory == <<T_Upgrade, T_Connection, T_Host, T_Origin, T_Key1, T_Key2>>

\* websocket_validate_fields with the mandatory names matched without regard
\* to case: a field named origin counts as Origin.
canonical_name(name) ==
    IF \E i \in 1..Len(Mandatory) : str_lower(Mandatory[i]) = str_lower(name)
    THEN Mandatory[CHOOSE i \in 1..Len(Mandatory) : str_lower(Mandatory[i]) = str_lower(name)]
    ELSE name

websocket_validate_fields_caseless(raw_fields) ==
    IF \E i \in 1..Len(raw_fields) :
           \/ str_find(raw_fields[i], FieldSep) = 0
           \/ Range(field_name(raw_fields[i])) \ permitted # {}
    THEN [res |-> "False", fields |-> <<>>]
    ELSE LET plain  == fields_dict(raw_fields)
             fields == [n \in {canonical_name(m) : m \in DOMAIN plain} |->
                           plain[CHOOSE m \in DOMAIN plain : canonical_name(m) = n]]
         IN  IF \E i \in 1..Len(Mandatory) : Mandatory[i] \notin DOMAIN fields
             THEN [res |-> "False", fields |-> <<>>]
             ELSE IF str_lower(fields[T_Upgrade]) # T_websocket
             THEN [res |-> "False", fields |-> <<>>]
             ELSE IF str_lower(fields[T_Connection]) # T_upgrade
             THEN [res |-> "False", fields |-> <<>>]
             ELSE [res |-> "ok", fields |-> fields]

websocket_validate_fields(raw_fields) ==
    IF \E i \in 1..Len(raw_fields) :
           \/ str_find(raw_fields[i], FieldSep) = 0
           \/ Range(field_name(raw_fields[i])) \ permitted # {}
    THEN [res |-> "False", fields |-> <<>>]
    ELSE LET fields == fields_dict(raw_fields)
         IN  IF \E i \in 1..Len(Mandatory) : Mandatory[i] \notin DOMAIN fields
             THEN [res |-> "False", fields |-> <<>>]
             ELSE IF str_lower(fields[T_Upgrade]) # T_websocket
             THEN [res |-> "False", fields |-> <<>>]
             ELSE IF str_lower(fields[T_Connection]) # T_upgrade
             THEN [res |-> "False", fields |-> <<>>]
             ELSE [res |-> "ok", fields |-> fields]

(***************************************************************************)
(* Numbers up to 10^14 as two limbs, n = hi * 10^5 + lo: the key numbers   *)
(* exceed the 32-bit integers of the model checker.                        *)
(***************************************************************************)
Limb == 10 * 10000

Num(hi, lo) == [hi |-> hi, lo |-> lo]
num_times10_plus(n, d) ==
    LET t == n.lo * 10 + d IN Num(n.hi * 10 + (t \div Limb), t % Limb)
num_gt(a, b) == a.hi > b.hi \/ (a.hi = b.hi /\ a.lo > b.lo)
\* quotient and remainder of n by a small d (d <= 256)
num_divmod(n, d) ==
    LET t == (n.hi % d) * Limb + n.lo
    IN  [q |-> Num(n.hi \div d, t \div d), r |-> t % d]

MaxU32 == Num(42949, 67295)     \* 4294967295

(***************************************************************************)
(* build_num(key), the inner function of                                   *)
(* websocket_build_challenge_response: res = "ok" with n / s, or           *)
(* res = "ValueError".                                                     *)
(***************************************************************************)
\* key_digits with the digits taken from the last to the first.
RECURSIVE key_digits_reversed(_)
key_digits_reversed(key) ==
    IF key = <<>> THEN Num(0, 0)
    ELSE LET n == key_digits_reversed(Tail(key))
             c == Head(key)
         IN  IF isdigit(c) THEN num_times10_plus(n, ord(c) - 48) ELSE n

RECURSIVE key_digits(_)
key_digits(key) ==
    IF key = <<>> THEN Num(0, 0)
    ELSE LET n == key_digits(SubSeq(key, 1, Len(key) - 1))
             c == key[Len(key)]
         IN  IF isdigit(c) THEN num_times10_plus(n, ord(c) - 48) ELSE n

key_spaces(key) == Cardinality({i \in 1..Len(key) : ~isdigit(key[i]) /\ isspace(key[i])})

build_num(key) ==
    LET n == key_digits(key)
        s == key_spaces(key)
    IN  IF num_gt(n, MaxU32) THEN [res |-> "ValueError", num |-> Num(0, 0)]
        ELSE IF s < 1 THEN [res |-> "ValueError", num |-> Num(0, 0)]
        ELSE [res |-> "ok", num |-> num_divmod(n, s).q]

(***************************************************************************)
(* struct.pack(">I", n): four bytes, most significant first.               *)
(***************************************************************************)
\* The same four bytes, least significant first (struct.pack("<I", n)).
pack_u32_little(n) ==
    LET a == num_divmod(n, 256)
        b == num_divmod(a.q, 256)
        c == num_divmod(b.q, 256)
        d == num_divmod(c.q, 256)
    IN  <<chr(a.r), chr(b.r), chr(c.r), chr(d.r)>>

pack_u32(n) ==
    LET a == num_divmod(n, 256)
        b == num_divmod(a.q, 256)
        c == num_divmod(b.q, 256)
        d == num_divmod(c.q, 256)
    IN  <<chr(d.r), chr(c.r), chr(b.r), chr(a.r)>>

\* challenge = struct.pack(">II", num1, num2) + final_bytes
challenge_buffer(num1, num2, final_bytes) ==
    pack_u32(num1) \o pack_u32(num2) \o final_bytes

(***************************************************************************)
(* hashlib.md5(challenge).digest(): 16 bytes that are a function of the    *)
(* input.  The digest of the draft's example challenge is the known one;   *)
(* any other digest is 16 bytes named after their input.                   *)
(***************************************************************************)
RECURSIVE JoinNames(_)
JoinNames(bytes) == IF bytes = <<>> THEN "" ELSE "." \o Head(bytes) \o JoinNames(Tail(bytes))

ClassicChallenge ==
    <<"1", "n", "A", "x13", "x0F", "~", "xD6", "<", "^", "n", ":", "d", "s", "[", "4", "U">>
ClassicDigest ==
    <<"8", "j", "K", "S", "'", "y", ":", "G", "*", "C", "o", ",", "W", "x", "a", "-">>

md5_digest(bytes) ==
    IF bytes = ClassicChallenge THEN ClassicDigest
    ELSE [i \in 1..16 |-> "md5[" \o ToString(i) \o "]" \o JoinNames(bytes)]

(***************************************************************************)
(* websocket_build_challenge_response(key1, key2, final_bytes):            *)
(* res = "ok" with the digest, or res = "False".  challenge keeps the      *)
(* buffer that was hashed.                                                 *)
(***************************************************************************)
websocket_build_challenge_response(key1, key2, final_bytes) ==
    LET num1 == build_num(key1)
        num2 == build_num(key2)
    IN  IF num1.res = "ValueError" \/ num2.res = "ValueError"
        THEN [res |-> "False", digest |-> <<>>, challenge |-> <<>>]
        ELSE LET challenge == challenge_buffer(num1.num, num2.num, final_bytes)
             IN  [res |-> "ok", digest |-> md5_digest(challenge), challenge |-> challenge]

(***************************************************************************)
(* websocket_build_response(path, final_bytes, fields): res = "ok" with    *)
(* the response, res = "False", or res = "ValueError" when                 *)
(* host, port = fields["Host"].split(':') does not unpack two values.      *)
(***************************************************************************)
T_StatusLine ==
    <<"H", "T", "T", "P", "/", "1", ".", "1", " ", "1", "0", "1", " ",
      "W", "e", "b", "S", "o", "c", "k", "e", "t", " ",
      "P", "r", "o", "t", "o", "c", "o", "l", " ",
      "H", "a", "n", "d", "s", "h", "a", "k", "e">>
T_WebSocket == <<"W", "e", "b", "S", "o", "c", "k", "e", "t">>
T_Location == T_SecWebSocket \o <<"L", "o", "c", "a", "t", "i", "o", "n">>
T_SecOrigin == T_SecWebSocket \o T_Origin
T_ws == <<"w", "s", ":", "/", "/">>

websocket_build_response(path, final_bytes, fields) ==
    LET host_port == str_split(fields[T_Host], <<":">>)
    IN  IF Len(host_port) # 2 THEN [res |-> "ValueError", response |-> <<>>]
        ELSE LET location  == T_ws \o host_port[1] \o <<":">> \o host_port[2] \o path
                 challenge == websocket_build_challenge_response(
                                  fields[T_Key1], fields[T_Key2], final_bytes)
             IN  IF challenge.res = "False" THEN [res |-> "False", response |-> <<>>]
                 ELSE [res |-> "ok",
                       response |->
                           T_StatusLine \o CRLF
                           \o T_Upgrade \o FieldSep \o T_WebSocket \o CRLF
                           \o T_Connection \o FieldSep \o T_Upgrade \o CRLF
                           \o T_Location \o FieldSep \o location \o CRLF
                           \o T_SecOrigin \o FieldSep \o fields[T_Origin] \o CRLF
                           \o (IF T_Protocol \in DOMAIN fields
                               THEN T_Protocol \o FieldSep \o fields[T_Protocol] \o CRLF
                               ELSE <<>>)
                           \o CRLF
                           \o challenge.digest \o CRLF]

(***************************************************************************)
(* data.decode("latin1").encode("utf-8"), byte by byte.  A digest byte     *)
(* whose value the model does not know is named after the conversion.      *)
(***************************************************************************)
latin1_to_utf8_byte(b) ==
    IF b \in Bytes
    THEN LET k == ord(b)
         IN  IF k < 128 THEN <<b>> ELSE <<chr(192 + (k \div 64)), chr(128 + (k % 64))>>
    ELSE <<"utf8(" \o b \o ")">>

latin1_to_utf8(data) == Concat([i \in 1..Len(data) |-> latin1_to_utf8_byte(data[i])])

(***************************************************************************)
(* WebSocketConnection.send(data): what it hands to Connection.write,      *)
(* given the value of self.handshake at the call.                          *)
(***************************************************************************)
send_payload(handshake_done, data) ==
    IF handshake_done THEN latin1_to_utf8(data) ELSE data

(***************************************************************************)
(* websocket_process_handshake(raw_handshake): res is "True", "False" or   *)
(* the class of the exception that leaves it; on "True", sent is what      *)
(* self.send(response) wrote, called before self.handshake = True.         *)
(***************************************************************************)
websocket_process_handshake(handshake_done, raw_handshake) ==
    LET form == websocket_validate_handshake(str_split(raw_handshake, CRLF))
    IN  IF form.res # "ok" THEN [res |-> form.res, sent |-> <<>>]
        ELSE LET valid == websocket_validate_fields(form.raw_fields)
             IN  IF valid.res # "ok" THEN [res |-> valid.res, sent |-> <<>>]
                 ELSE LET built == websocket_build_response(
                                       form.path, form.final_bytes, valid.fields)
                      IN  IF built.res # "ok" THEN [res |-> built.res, sent |-> <<>>]
                          ELSE [res  |-> "True",
                                sent |-> send_payload(handshake_done, built.response)]

(***************************************************************************)
(* packet[1:-1].decode("UTF-8").encode("latin1"): the code points of the   *)
(* payload, then one byte per code point.  err is "none",                  *)
(* "UnicodeDecodeError" or "UnicodeEncodeError".                           *)
(***************************************************************************)
is_cont(b) == ord(b) \in 128..191

RECURSIVE utf8_decode(_)
utf8_decode(bytes) ==
    IF bytes = <<>> THEN [err |-> "none", cps |-> <<>>]
    ELSE LET b0   == ord(bytes[1])
             need == IF b0 < 128 THEN 1
                     ELSE IF b0 \in 194..223 THEN 2
                     ELSE IF b0 \in 224..239 THEN 3
                     ELSE IF b0 \in 240..244 THEN 4
                     ELSE 0
             wellformed ==
                 /\ need > 0
                 /\ Len(bytes) >= need
                 /\ \A i \in 2..need : is_cont(bytes[i])
                 /\ b0 = 224 => ord(bytes[2]) >= 160
                 /\ b0 = 240 => ord(bytes[2]) >= 144
                 /\ b0 = 244 => ord(bytes[2]) <= 143
             cp == IF need = 1 THEN b0
                   ELSE IF need = 2 THEN (b0 - 192) * 64 + (ord(bytes[2]) - 128)
                   ELSE IF need = 3
                   THEN (b0 - 224) * 4096 + (ord(bytes[2]) - 128) * 64 + (ord(bytes[3]) - 128)
                   ELSE (b0 - 240) * 262144 + (ord(bytes[2]) - 128) * 4096
                        + (ord(bytes[3]) - 128) * 64 + (ord(bytes[4]) - 128)
         IN  IF ~wellformed THEN [err |-> "UnicodeDecodeError", cps |-> <<>>]
             ELSE LET rest == utf8_decode(SubSeq(bytes, need + 1, Len(bytes)))
                  IN  IF rest.err # "none" THEN rest
                      ELSE [err |-> "none", cps |-> <<cp>> \o rest.cps]

utf8_to_latin1(bytes) ==
    LET dec == utf8_decode(bytes)
    IN  IF dec.err # "none" THEN [err |-> dec.err, out |-> <<>>]
        ELSE IF \E i \in 1..Len(dec.cps) : dec.cps[i] > 255
        THEN [err |-> "UnicodeEncodeError", out |-> <<>>]
        ELSE [err |-> "none", out |-> [i \in 1..Len(dec.cps) |-> chr(dec.cps[i])]]

(***************************************************************************)
(* websocket_process_inbuf(), on inbuf = buf and packet_inbuf = packets:   *)
(* the two buffers when it returns or raises.                              *)
(***************************************************************************)
\* An extraction that takes the first frame only and leaves the others
\* for the next read.
websocket_process_inbuf_once(buf, packets) ==
    LET packet_start == str_find(buf, <<NUL>>)
        packet_end   == str_find(buf, <<XFF>>)
    IN  IF packet_start = 0 \/ packet_end = 0
        THEN [inbuf |-> buf, packets |-> packets, raised |-> "none"]
        ELSE IF packet_start > packet_end
        THEN [inbuf |-> buf, packets |-> packets, raised |-> "Exception"]
        ELSE LET processed == utf8_to_latin1(SubSeq(buf, packet_start + 1, packet_end - 1))
             IN  IF processed.err # "none"
                 THEN [inbuf |-> buf, packets |-> packets, raised |-> processed.err]
                 ELSE [inbuf   |-> SubSeq(buf, packet_end + 1, Len(buf)),
                       packets |-> Append(packets, processed.out),
                       raised  |-> "none"]

\* An extraction that cuts the frame out of the buffer and keeps the
\* bytes in front of its start marker.
RECURSIVE websocket_process_inbuf_keeping(_, _)
websocket_process_inbuf_keeping(buf, packets) ==
    LET packet_start == str_find(buf, <<NUL>>)
        packet_end   == str_find(buf, <<XFF>>)
    IN  IF packet_start = 0 \/ packet_end = 0
        THEN [inbuf |-> buf, packets |-> packets, raised |-> "none"]
        ELSE IF packet_start > packet_end
        THEN [inbuf |-> buf, packets |-> packets, raised |-> "Exception"]
        ELSE LET processed == utf8_to_latin1(SubSeq(buf, packet_start + 1, packet_end - 1))
             IN  IF processed.err # "none"
                 THEN [inbuf |-> buf, packets |-> packets, raised |-> processed.err]
                 ELSE websocket_process_inbuf_keeping(
                          SubSeq(buf, 1, packet_start - 1)
                              \o SubSeq(buf, packet_end + 1, Len(buf)),
                          Append(packets, processed.out))

RECURSIVE websocket_process_inbuf(_, _)
websocket_process_inbuf(buf, packets) ==
    LET packet_start == str_find(buf, <<NUL>>)
        packet_end   == str_find(buf, <<XFF>>)
    IN  IF packet_start = 0 \/ packet_end = 0
        THEN [inbuf |-> buf, packets |-> packets, raised |-> "none"]
        ELSE IF packet_start > packet_end
        THEN [inbuf |-> buf, packets |-> packets, raised |-> "Exception"]
        ELSE LET processed == utf8_to_latin1(SubSeq(buf, packet_start + 1, packet_end - 1))
             IN  IF processed.err # "none"
                 THEN [inbuf |-> buf, packets |-> packets, raised |-> processed.err]
                 ELSE websocket_process_inbuf(SubSeq(buf, packet_end + 1, Len(buf)),
                                              Append(packets, processed.out))

(***************************************************************************)
(* A handle_read that looks at the data instead of the mode: whatever      *)
(* begins with GET is taken for a handshake request, also after the        *)
(* handshake.                                                              *)
(***************************************************************************)
handle_read_by_content(data) ==
    /\ ~closed
    /\ IF handshake /\ (Len(data) < 3 \/ SubSeq(data, 1, 3) # T_GET)
       THEN LET r == websocket_process_inbuf(inbuf \o data, packet_inbuf)
            IN  /\ inbuf' = r.inbuf
                /\ packet_inbuf' = r.packets
                /\ ws' = [n |-> ws.n + 1, data |-> data, framing |-> TRUE,
                          raised |-> r.raised]
                /\ stream' = stream \o data
                /\ UNCHANGED <<handshake, written, closed>>
       ELSE LET r == websocket_process_handshake(handshake, data)
            IN  /\ written' = IF r.res = "True" THEN Append(written, r.sent) ELSE written
                /\ handshake' = (r.res = "True")
                /\ closed' = (r.res = "False")
                /\ ws' = [n |-> ws.n + 1, data |-> data, framing |-> FALSE,
                          raised |-> IF r.res \in {"True", "False"} THEN "none" ELSE r.res]
                /\ UNCHANGED <<inbuf, packet_inbuf, stream>>
    /\ UNCHANGED <<snd, mudvars, ch, fp, st>>

(***************************************************************************)
(* WebSocketConnection.handle_read(data).                                  *)
(***************************************************************************)
handle_read(data) ==
    /\ ~closed
    /\ IF handshake
       THEN LET r == websocket_process_inbuf(inbuf \o data, packet_inbuf)
            IN  /\ inbuf' = r.inbuf
                /\ packet_inbuf' = r.packets
                /\ ws' = [n |-> ws.n + 1, data |-> data, framing |-> TRUE,
                          raised |-> r.raised]
                /\ stream' = stream \o data
                /\ UNCHANGED <<handshake, written, closed>>
       ELSE LET r == websocket_process_handshake(handshake, data)
            IN  /\ written' = IF r.res = "True" THEN Append(written, r.sent) ELSE written
                /\ handshake' = (r.res = "True")
                /\ closed' = (r.res = "False")
                /\ ws' = [n |-> ws.n + 1, data |-> data, framing |-> FALSE,
                          raised |-> IF r.res \in {"True", "False"} THEN "none" ELSE r.res]
                /\ UNCHANGED <<inbuf, packet_inbuf, stream>>
    /\ UNCHANGED <<snd, mudvars, ch, fp, st>>

(***************************************************************************)
(* Handshake requests: the draft's example request, and that request with  *)
(* up to MaxDeviations of its parts replaced by another option.            *)
(***************************************************************************)
\* request line: good, not GET, not HTTP/1.1, path without /, two words
HeaderOpts ==
    <<<<
        <<"G", "E", "T", " ", "/", "c", " ", "H", "T", "T", "P", "/", "1", ".", "1">>>>,
      <<
        <<"P", "O", "S", "T", " ", "/", "c", " ", "H", "T", "T", "P", "/", "1", ".", "1">>>>,
      <<
        <<"G", "E", "T", " ", "/", "c", " ", "H", "T", "T", "P", "/", "1", ".", "0">>>>,
      <<
        <<"G", "E", "T", " ", "c", " ", "H", "T", "T", "P", "/", "1", ".", "1">>>>,
      <<
        <<"G", "E", "T", " ", "/", "c">>>>>>
\* Upgrade: WebSocket, websocket, wrong value, absent
UpgradeOpts ==
    <<<<
        <<"U", "p", "g", "r", "a", "d", "e", ":", " ", "W", "e", "b", "S", "o", "c", "k", "e", "t">>>>,
      <<
        <<"U", "p", "g", "r", "a", "d", "e", ":", " ", "w", "e", "b", "s", "o", "c", "k", "e", "t">>>>,
      <<
        <<"U", "p", "g", "r", "a", "d", "e", ":", " ", "t", "l", "s">>>>,
      <<>>>>
\* Connection: Upgrade, absent
ConnectionOpts ==
    <<<<
        <<"C", "o", "n", "n", "e", "c", "t", "i", "o", "n", ":", " ", "U", "p", "g", "r", "a", "d", "e">>>>,
      <<>>>>
\* Host: with a port, without a port, with several colons, absent
HostOpts ==
    <<<<
        <<"H", "o", "s", "t", ":", " ", "x", ":", "8", "0">>>>,
      <<
        <<"H", "o", "s", "t", ":", " ", "x">>>>,
      <<
        <<"H", "o", "s", "t", ":", " ", "[", ":", ":", "1", "]", ":", "8", "0">>>>,
      <<>>>>
\* Origin: present, absent, named origin
OriginOpts ==
    <<<<
        <<"O", "r", "i", "g", "i", "n", ":", " ", "h", "t", "t", "p", ":", "/", "/", "x">>>>,
      <<>>,
      <<
        <<"o", "r", "i", "g", "i", "n", ":", " ", "h", "t", "t", "p", ":", "/", "/", "x">>>>>>
\* Sec-WebSocket-Key1: classic, no whitespace, number above 4294967295, absent
Key1Opts ==
    <<<<
        <<"S", "e", "c", "-", "W", "e", "b", "S", "o", "c", "k", "e", "t", "-", "K", "e", "y", "1", ":", " ", "4", " ", "@", "1", " ", " ", "4", "6", "5", "4", "6", "x", "W", "%", "0", "l", " ", "1", " ", "5">>>>,
      <<
        <<"S", "e", "c", "-", "W", "e", "b", "S", "o", "c", "k", "e", "t", "-", "K", "e", "y", "1", ":", " ", "1", "2">>>>,
      <<
        <<"S", "e", "c", "-", "W", "e", "b", "S", "o", "c", "k", "e", "t", "-", "K", "e", "y", "1", ":", " ", "4", "2", "9", "4", "9", "6", "7", " ", "2", "9", "6">>>>,
      <<>>>>
\* Sec-WebSocket-Key2: classic, absent
Key2Opts ==
    <<<<
        <<"S", "e", "c", "-", "W", "e", "b", "S", "o", "c", "k", "e", "t", "-", "K", "e", "y", "2", ":", " ", "1", "2", "9", "9", "8", " ", "5", " ", "Y", "3", " ", "1", " ", " ", ".", "P", "0", "0">>>>,
      <<>>>>
\* Sec-WebSocket-Protocol: absent, present
ProtocolOpts ==
    <<<<>>,
      <<
        <<"S", "e", "c", "-", "W", "e", "b", "S", "o", "c", "k", "e", "t", "-", "P", "r", "o", "t", "o", "c", "o", "l", ":", " ", "c", "h", "a", "t">>>>>>
\* an extra line: none, one without ': ', one with a space in its name
JunkOpts ==
    <<<<>>,
      <<
        <<"j", "u", "n", "k">>>>,
      <<
        <<"B", "a", "d", " ", "N", "a", "m", "e", ":", " ", "v">>>>>>
\* end of request: blank line and 8 bytes, blank line and 7 bytes, no blank line
TailOpts ==
    <<<<
        <<>>,
        <<"^", "n", ":", "d", "s", "[", "4", "U">>>>,
      <<
        <<>>,
        <<"^", "n", ":", "d", "s", "[", "4">>>>,
      <<
        <<"^", "n", ":", "d", "s", "[", "4", "U">>>>>>

Options ==
    <<HeaderOpts, UpgradeOpts, ConnectionOpts, HostOpts, OriginOpts,
      Key1Opts, Key2Opts, ProtocolOpts, JunkOpts, TailOpts>>

\* The choices for the first i parts with at most d of them not the first option.
RECURSIVE Choices(_, _)
Choices(i, d) ==
    IF i = 0 THEN {<<>>}
    ELSE {Append(c, 1) : c \in Choices(i - 1, d)}
         \cup (IF d = 0 THEN {}
               ELSE {Append(c, k) : c \in Choices(i - 1, d - 1), k \in 2..Len(Options[i])})

RECURSIVE JoinLines(_)
JoinLines(lines) ==
    IF Len(lines) = 1 THEN lines[1] ELSE lines[1] \o CRLF \o JoinLines(Tail(lines))

RequestOf(choice) ==
    JoinLines(Concat([i \in 1..Len(Options) |-> Options[i][choice[i]]]))

Requests == {RequestOf(c) : c \in Choices(Len(Options), MaxDeviations)}

ClassicRequest == RequestOf([i \in 1..Len(Options) |-> 1])

FrameBytes == {NUL, XFF, "a", "xC3", "xA9"}
FrameChunks == SeqsUpTo(FrameBytes, MaxFrame)

(***************************************************************************)
(* SpecWS: reads on a WebSocketConnection.                                 *)
(***************************************************************************)
\* Before the handshake the peer sends a request, or bytes that are none;
\* after it, frame bytes, or one more request.
WSInputs ==
    IF handshake THEN FrameChunks \cup {ClassicRequest}
    ELSE Requests \cup SeqsUpTo(FrameBytes, 1)

NextWS ==
    /\ ws.n < MaxWSReads
    /\ \E data \in WSInputs : handle_read(data)

SpecWS == Init /\ [][NextWS]_vars

(***************************************************************************)
(* Properties of the line decoder (Spec).                                  *)
(***************************************************************************)
Top(stack) == stack[Len(stack)]

\* The lines of the on_readline calls numbered from + 1 .. Len(out).
LinesFrom(out, from) == [i \in 1..(Len(out) - from) |-> out[from + i].line]

LastRead == reads[rd.n]

\* The lines queued when the last read reached its dispatch loop, in the
\* order their line feeds arrived: those buffered before, then its own.
LastQueued == rd.pre_buf \o split_lines(LastRead.data)

StreamOf(rs) == Concat([i \in 1..Len(rs) |-> rs[i].data])

\* C1: with a state on the stack, the lines of a read reach on_readline in
\* the order their line feeds arrived (first in, first out), the lines
\* buffered by earlier reads before the lines of this read.
C1_FifoDelivery ==
    (rd.n > 0 /\ LastRead.stack # <<>>)
        => LinesFrom(delivered, rd.pre_out) = LastQueued

\* C2: however a stream is cut into reads, the state receives the same
\* sequence of lines as when the stream arrives in one read.
C2_ChunkIndependence ==
    (rd.n > 0 /\ \A i \in 1..Len(reads) : reads[i].stack # <<>>)
        => LinesFrom(delivered, 0)
             = LinesFrom(dispatch(split_lines(StreamOf(reads)), state_stack, <<>>).out, 0)

\* C3: a read that meets an empty stack raises nothing, calls no handler
\* and leaves every complete line in line_inbuf; a read that meets a state
\* hands every queued line, the ones kept from earlier reads included, to
\* that state and empties the buffer.
C3_EmptyStackKeepsLines ==
    /\ (rd.n > 0 /\ LastRead.stack = <<>>)
         => /\ rd.raised = "none"
            /\ Len(delivered) = rd.pre_out
            /\ line_inbuf = LastQueued
    /\ (rd.n > 0 /\ LastRead.stack # <<>>)
         => /\ rd.raised = "none"
            /\ line_inbuf = <<>>
            /\ SeqToBag(LinesFrom(delivered, rd.pre_out)) = SeqToBag(LastQueued)
            /\ \A i \in (rd.pre_out + 1)..Len(delivered) :
                   delivered[i].state = Top(LastRead.stack)

\* Lines kept by a read on an empty stack were delivered once a state was there.
C3_Witness ==
    /\ rd.n = 2
    /\ reads[1].stack = <<>>
    /\ reads[2].stack # <<>>
    /\ Len(rd.pre_buf) >= 2
    /\ Len(delivered) = Len(LastQueued)
    /\ line_inbuf = <<>>

\* C9: every on_readline call goes to the state that is last in state_stack
\* at that moment, and a line is handed over once: a read makes as many
\* calls as it takes lines off the buffer.
C9_DispatchTopOnly ==
    /\ \A i \in 1..Len(delivered) :
           /\ delivered[i].stack # <<>>
           /\ delivered[i].state = Top(delivered[i].stack)
    /\ rd.n > 0 => Len(delivered) - rd.pre_out = Len(LastQueued) - Len(line_inbuf)

\* A line was dispatched while another state lay beneath the top.
C9_Witness ==
    \E i \in 1..Len(delivered) :
        /\ Len(delivered[i].stack) = 2
        /\ delivered[i].state = delivered[i].stack[2]
        /\ delivered[i].state # delivered[i].stack[1]

(***************************************************************************)
(* Properties of the state stack operations (SpecStack).                   *)
(***************************************************************************)
Last == hist[Len(hist)]

\* C4: push_state(s) followed by pop_state() returns s and leaves the stack
\* as it was before the push.
C4_PushPopRoundTrip ==
    (Len(hist) = 2 /\ hist[1].op = "push_state" /\ hist[2].op = "pop_state")
        => /\ hist[2].ret = hist[1].arg
           /\ hist[2].post = hist[1].pre

\* C5: push_state calls on_losefocus on the old top (if any), appends the
\* new state, then calls on_gainfocus on it; the stack is one longer with
\* the new state on top.
C5_PushFocusProtocol ==
    (Len(hist) > 0 /\ Last.op = "push_state")
        => /\ Last.raised = "none"
           /\ Last.post = Append(Last.pre, Last.arg)
           /\ Last.focus = (IF Last.pre # <<>> THEN <<Lose(Top(Last.pre))>> ELSE <<>>)
                             \o <<Gain(Last.arg)>>

\* C6: pop_state on a non-empty stack removes the top, calls on_losefocus
\* on it, then on_gainfocus on the new top if there is one, and returns the
\* removed state.
C6_PopFocusProtocol ==
    (Len(hist) > 0 /\ Last.op = "pop_state" /\ Last.pre # <<>>)
        => /\ Last.raised = "none"
           /\ Last.ret = Top(Last.pre)
           /\ Last.post = SubSeq(Last.pre, 1, Len(Last.pre) - 1)
           /\ Last.focus = <<Lose(Top(Last.pre))>>
                             \o (IF Last.post # <<>> THEN <<Gain(Top(Last.post))>> ELSE <<>>)

\* C7: on an empty stack pop_state and replace_state raise nothing and
\* return None; pop_state leaves the stack empty.
C7_EmptyStackNotAnError ==
    (Len(hist) > 0 /\ Last.pre = <<>> /\ Last.op \in {"pop_state", "replace_state"})
        => /\ Last.raised = "none"
           /\ Last.ret = None
           /\ Last.op = "pop_state" => Last.post = <<>>

\* C8: replace_state(s) does what pop_state() followed by push_state(s)
\* does: same resulting stack, same focus callbacks, same returned value
\* (the state that was on top, or None).
C8_ReplaceIsPopThenPush ==
    (Len(hist) = 2 /\ hist[1].op = "pop_state" /\ hist[2].op = "push_state")
        => LET r == replace_state_result(hist[1].pre, hist[2].arg)
           IN  /\ r.stack = hist[2].post
               /\ r.focus = hist[1].focus \o hist[2].focus
               /\ r.ret = hist[1].ret
               /\ r.raised = hist[2].raised

(***************************************************************************)
(* Properties of the WebSocket handshake (SpecWS).                         *)
(***************************************************************************)
\* A request that passes every validation step of the handshake: the form
\* of the request, its fields, and the two key numbers.
ValidRequest(data) ==
    LET form == websocket_validate_handshake(str_split(data, CRLF))
    IN  /\ form.res = "ok"
        /\ LET valid == websocket_validate_fields(form.raw_fields)
           IN  /\ valid.res = "ok"
               /\ websocket_build_challenge_response(
                      valid.fields[T_Key1], valid.fields[T_Key2], form.final_bytes).res = "ok"

\* The challenge response a valid request calls for.
ExpectedDigest(data) ==
    LET form  == websocket_validate_handshake(str_split(data, CRLF))
        valid == websocket_validate_fields(form.raw_fields)
    IN  websocket_build_challenge_response(
            valid.fields[T_Key1], valid.fields[T_Key2], form.final_bytes).digest

\* data is the response to a request, as built: it opens with the status
\* line and carries the 16 digest bytes untouched before its last CRLF.
RawResponse(sent, request) ==
    /\ Len(sent) > Len(T_StatusLine) + 18
    /\ SubSeq(sent, 1, Len(T_StatusLine)) = T_StatusLine
    /\ SubSeq(sent, Len(sent) - 17, Len(sent) - 2) = ExpectedDigest(request)

HandshakeDone ==
    /\ handshake = TRUE
    /\ closed = FALSE
    /\ ws.raised = "none"
    /\ Len(written) = 1
    /\ RawResponse(written[1], ws.data)

\* C10: a connection starts with handshake = False; when its first read is
\* a valid handshake request the response is written as built (not
\* framed or re-encoded), handshake becomes True and the connection stays
\* open.
C10_ValidHandshakeTransition ==
    /\ ws.n = 0 => handshake = FALSE
    /\ (ws.n = 1 /\ ValidRequest(ws.data)) => HandshakeDone

\* The same, for the requests whose Host value is host:port (one colon).
HostHasPort(data) ==
    LET form  == websocket_validate_handshake(str_split(data, CRLF))
        valid == websocket_validate_fields(form.raw_fields)
    IN  Len(str_split(valid.fields[T_Host], <<":">>)) = 2

HandshakeWithPort ==
    /\ ws.n = 0 => handshake = FALSE
    /\ (ws.n = 1 /\ ValidRequest(ws.data) /\ HostHasPort(ws.data)) => HandshakeDone

HandshakeWithPortReached ==
    ws.n = 1 /\ ws.data = ClassicRequest /\ HandshakeDone

(***************************************************************************)
(* Claims about the handshake (SpecWS), continued.                         *)
(***************************************************************************)

\* C11: every first read that fails a validation step of the handshake
\* (line count, request line, blank line and final bytes, header fields,
\* keys) writes nothing, closes the connection, leaves handshake = False
\* and raises no exception.
C11_MalformedHandshakeClosed ==
    (ws.n = 1 /\ ~ValidRequest(ws.data))
        => (closed /\ written = <<>> /\ handshake = FALSE /\ ws.raised = "none")

\* The header lines carry a field of this name: a line that opens with the
\* name followed by ": ".
HasField(raw_fields, name) ==
    \E i \in 1..Len(raw_fields) :
        /\ Len(raw_fields[i]) >= Len(name) + 2
        /\ SubSeq(raw_fields[i], 1, Len(name) + 2) = name \o <<":", " ">>

SixFields ==
    {<<"U", "p", "g", "r", "a", "d", "e">>,
     <<"C", "o", "n", "n", "e", "c", "t", "i", "o", "n">>,
     <<"H", "o", "s", "t">>,
     <<"O", "r", "i", "g", "i", "n">>,
     <<"S", "e", "c", "-", "W", "e", "b", "S", "o", "c", "k", "e", "t", "-", "K", "e", "y", "1">>,
     <<"S", "e", "c", "-", "W", "e", "b", "S", "o", "c", "k", "e", "t", "-", "K", "e", "y", "2">>}

LacksField(data) ==
    LET form == websocket_validate_handshake(str_split(data, CRLF))
    IN  /\ form.res = "ok"
        /\ \E name \in SixFields : ~HasField(form.raw_fields, name)

\* C12: a handshake request of valid form that lacks one of Upgrade,
\* Connection, Host, Origin, Sec-WebSocket-Key1, Sec-WebSocket-Key2 (names
\* compared case-sensitively) is rejected by websocket_validate_fields, and
\* no response is written.
C12_MissingFieldRejected ==
    (ws.n = 1 /\ LacksField(ws.data))
        => /\ websocket_validate_fields(
                  websocket_validate_handshake(str_split(ws.data, CRLF)).raw_fields).res = "False"
           /\ written = <<>>
           /\ handshake = FALSE
           /\ closed

\* A request whose only departure from the example is that Origin is
\* spelled origin has been read and rejected.
C12_Witness ==
    /\ ws.n = 1
    /\ LacksField(ws.data)
    /\ HasField(websocket_validate_handshake(str_split(ws.data, CRLF)).raw_fields,
                <<"o", "r", "i", "g", "i", "n">>)
    /\ \A name \in SixFields \ {<<"O", "r", "i", "g", "i", "n">>} :
           HasField(websocket_validate_handshake(str_split(ws.data, CRLF)).raw_fields, name)
    /\ closed
    /\ written = <<>>

(***************************************************************************)
(* SpecChallenge: websocket_build_challenge_response as a function of its  *)
(* arguments.  The keys and the final bytes are drawn at the start; the    *)
(* connection builds the response to them up to MaxCalls times, before or  *)
(* after it has completed a handshake of its own.                          *)
(***************************************************************************)
KeyChars == {"1", "2", " ", "x"}

K_classic1 ==
    <<"4", " ", "@", "1", " ", " ", "4", "6", "5", "4", "6", "x", "W", "%", "0", "l",
      " ", "1", " ", "5">>
K_classic2 ==
    <<"1", "2", "9", "9", "8", " ", "5", " ", "Y", "3", " ", "1", " ", " ", ".", "P",
      "0", "0">>
K_max == <<"4", "2", "9", "4", "9", "6", "7", "2", "9", "5", " ">>
K_over == <<"4", "2", "9", "4", "9", "6", "7", "2", "9", "6", " ">>
K_tabs == <<"8", "x09", "x0B", "4">>

LongKeys == {K_classic1, K_classic2, K_max, K_over, K_tabs}
Keys == SeqsUpTo(KeyChars, MaxKey) \cup LongKeys

F_classic == <<"^", "n", ":", "d", "s", "[", "4", "U">>
F_binary == <<NUL, XFF, CR, LF, " ", "xE9", "a", NUL>>
F_high == <<NUL, XFF, "xE9", " ", "a", "x80", LF, NUL>>    \* binary, no CR LF pair
Finals == {F_classic, F_binary, F_high}

InitChallenge ==
    /\ line_inbuf = <<>>
    /\ state_stack = <<>>
    /\ reads = <<>>
    /\ delivered = <<>>
    /\ rd = NoRead
    /\ hist = <<>>
    /\ published = <<>>
    /\ focus = {}
    /\ fp = NoFlash
    /\ st = NoStore
    /\ handshake = FALSE
    /\ inbuf = <<>>
    /\ packet_inbuf = <<>>
    /\ written = <<>>
    /\ closed = FALSE
    /\ ws = [n |-> 0, data |-> <<>>, framing |-> FALSE, raised |-> "none"]
    /\ stream = <<>>
    /\ snd = NoSend
    /\ \E k \in Keys, l \in LongKeys, f \in Finals :
           \/ ch = [key1 |-> k, key2 |-> l, final_bytes |-> f, results |-> <<>>]
           \/ ch = [key1 |-> l, key2 |-> k, final_bytes |-> f, results |-> <<>>]

\* One call of websocket_build_challenge_response(key1, key2, final_bytes),
\* with what build_num made of each key.
challenge_call ==
    /\ Len(ch.results) < MaxCalls
    /\ ch' = [ch EXCEPT !.results =
                 Append(@, [num1      |-> build_num(ch.key1),
                            num2      |-> build_num(ch.key2),
                            response  |-> websocket_build_challenge_response(
                                              ch.key1, ch.key2, ch.final_bytes),
                            handshake |-> handshake])]
    /\ UNCHANGED <<mudvars, wsvars, fp, st>>

NextChallenge ==
    \/ challenge_call
    \/ ws.n < 1 /\ handle_read(ClassicRequest)

SpecChallenge == InitChallenge /\ [][NextChallenge]_vars

(***************************************************************************)
(* Claims about the challenge (SpecChallenge).                             *)
(***************************************************************************)
DecimalDigits == {"0", "1", "2", "3", "4", "5", "6", "7", "8", "9"}
WhitespaceChars == {" ", "x09", "x0A", "x0B", "x0C", "x0D"}

DigitsOf(key) == SelectSeq(key, LAMBDA c : c \in DecimalDigits)
SpacesOf(key) == Len(SelectSeq(key, LAMBDA c : c \in WhitespaceChars))

RECURSIVE IntValue(_)
IntValue(ds) ==
    IF ds = <<>> THEN 0
    ELSE IntValue(SubSeq(ds, 1, Len(ds) - 1)) * 10
         + (CHOOSE d \in 0..9 : ToString(d) = ds[Len(ds)])

\* What the design makes of a key: its digits read as one number n, its
\* whitespace counted as s, failure when n > 4294967295 or s < 1, else
\* n div s.  The keys whose n needs more than 31 bits are listed with
\* their quotients.
ExpectedNum(key) ==
    IF key = K_classic1 THEN [res |-> "ok", num |-> Num(8293, 9203)]         \* 829309203
    ELSE IF key = K_classic2 THEN [res |-> "ok", num |-> Num(2599, 70620)]   \* 259970620
    ELSE IF key = K_max THEN [res |-> "ok", num |-> Num(42949, 67295)]       \* 4294967295
    ELSE IF key = K_over THEN [res |-> "ValueError", num |-> Num(0, 0)]
    ELSE LET n == IntValue(DigitsOf(key))
             s == SpacesOf(key)
         IN  IF s < 1 THEN [res |-> "ValueError", num |-> Num(0, 0)]
             ELSE [res |-> "ok", num |-> Num((n \div s) \div Limb, (n \div s) % Limb)]

\* C13: build_num reads the digits of a key in order as n and counts its
\* whitespace as s, fails when n > 4294967295 or s < 1, and otherwise gives
\* n div s; the example keys give 4146546015 div 5 = 829309203 and
\* 1299853100 div 5 = 259970620.
C13_KeyNumber ==
    /\ \A i \in 1..Len(ch.results) :
           /\ ch.results[i].num1 = ExpectedNum(ch.key1)
           /\ ch.results[i].num2 = ExpectedNum(ch.key2)
    /\ (ch.results # <<>> /\ ch.key1 = K_classic1)
           => /\ key_digits(ch.key1) = Num(41465, 46015)
              /\ key_spaces(ch.key1) = 5
    /\ (ch.results # <<>> /\ ch.key2 = K_classic2)
           => /\ key_digits(ch.key2) = Num(12998, 53100)
              /\ key_spaces(ch.key2) = 5

C13_Witness ==
    /\ ch.results # <<>>
    /\ ch.key1 = K_classic1
    /\ ch.key2 = K_classic2
    /\ ch.results[1].num1 = [res |-> "ok", num |-> Num(8293, 9203)]
    /\ ch.results[1].num2 = [res |-> "ok", num |-> Num(2599, 70620)]

\* A key the design accepts: its digits read as a number are at most
\* 4294967295 (of the keys drawn, those of ten digits are listed) and it
\* has at least one whitespace character.
ValidKey(key) ==
    /\ Len(DigitsOf(key)) < 10 \/ key \in {K_classic1, K_classic2, K_max}
    /\ SpacesOf(key) >= 1

(***************************************************************************)
(* SpecKeyed: handshakes with drawn keys.  The keys and the final bytes    *)
(* are drawn at the start; the peer sends the example request with them,   *)
(* its Host with or without a port, and sends it again after a read that   *)
(* raised and left the connection open.                                    *)
(***************************************************************************)
HostWithPort == HostOpts[1][1]
HostWithoutPort == HostOpts[2][1]
KeyedHosts == {HostWithPort, HostWithoutPort}

KeyedRequest(hostline, key1, key2, final_bytes) ==
    JoinLines(<<HeaderOpts[1][1], UpgradeOpts[1][1], ConnectionOpts[1][1], hostline,
                OriginOpts[1][1], T_Key1 \o FieldSep \o key1, T_Key2 \o FieldSep \o key2,
                <<>>, final_bytes>>)

NextKeyed ==
    /\ ws.n < MaxKeyedReads
    /\ ~handshake
    /\ \E hostline \in KeyedHosts :
           handle_read(KeyedRequest(hostline, ch.key1, ch.key2, ch.final_bytes))

SpecKeyed == InitChallenge /\ [][NextKeyed]_vars

(***************************************************************************)
(* Claims about the challenge response of a handshake (SpecKeyed).         *)
(***************************************************************************)
\* The 16 bytes that follow the blank line of a response.
ChallengeOf(sent) ==
    LET blank == str_find(sent, CRLF \o CRLF)
    IN  IF blank = 0 THEN <<>>
        ELSE SubSeq(sent, blank + 4, IF Len(sent) < blank + 19 THEN Len(sent) ELSE blank + 19)

\* The response the design gives to two keys and the final bytes: the MD5
\* of the two key numbers, big-endian, and the final bytes.
KeyedDigest(key1, key2, final_bytes) ==
    md5_digest(challenge_buffer(ExpectedNum(key1).num, ExpectedNum(key2).num, final_bytes))

\* The last read was answered with the challenge response of the keys.
KeyedHandshakeAnswered ==
    /\ ws.raised = "none"
    /\ handshake
    /\ ~closed
    /\ Len(written) = 1
    /\ Len(ChallengeOf(written[1])) = 16
    /\ ChallengeOf(written[1]) = KeyedDigest(ch.key1, ch.key2, ch.final_bytes)

\* C14: for valid Key1 and Key2 and any 8 final bytes the handshake is
\* answered with a 16-byte challenge response, never a failure, and the
\* response is the same function of the keys and the final bytes whatever
\* the connection did before.
C14_ChallengeTotalDeterministic ==
    (ws.n >= 1 /\ ValidKey(ch.key1) /\ ValidKey(ch.key2) /\ Len(ch.final_bytes) = 8)
        => KeyedHandshakeAnswered

\* The same for the requests whose Host names a port and whose final
\* bytes hold no CR LF pair: these are answered, on a first read and
\* after a read that raised.
KeyedAnsweredWithPortAndPlainFinal ==
    (/\ ws.n >= 1
     /\ ValidKey(ch.key1) /\ ValidKey(ch.key2)
     /\ ws.data = KeyedRequest(HostWithPort, ch.key1, ch.key2, ch.final_bytes)
     /\ str_find(ch.final_bytes, CRLF) = 0)
        => KeyedHandshakeAnswered

\* The example request with final bytes that hold CR LF was refused:
\* nothing written, connection closed.
BinaryFinalRefusedReached ==
    /\ ws.n = 1
    /\ ws.data = KeyedRequest(HostWithPort, K_classic1, K_classic2, F_binary)
    /\ ~handshake
    /\ closed
    /\ written = <<>>

\* Binary final bytes without CR LF were answered on the second read,
\* after a first read that raised.
BinaryFinalAnsweredOnSecondReadReached ==
    /\ ws.n = 2
    /\ ch.final_bytes = F_high
    /\ ch.key1 = K_max
    /\ KeyedHandshakeAnswered

(***************************************************************************)
(* Claims about the handshake response (SpecWS).                           *)
(***************************************************************************)
\* The response the design lays out for an accepted request: status line,
\* Upgrade, Connection, Sec-WebSocket-Location, Sec-WebSocket-Origin, the
\* Sec-WebSocket-Protocol of the request if it has one, a blank line, and
\* the 16 bytes of the challenge response as the last bytes.
LayoutOf(data) ==
    LET form   == websocket_validate_handshake(str_split(data, CRLF))
        fields == websocket_validate_fields(form.raw_fields).fields
    IN  T_StatusLine \o CRLF
        \o <<"U", "p", "g", "r", "a", "d", "e", ":", " ">> \o T_WebSocket \o CRLF
        \o <<"C", "o", "n", "n", "e", "c", "t", "i", "o", "n", ":", " ",
             "U", "p", "g", "r", "a", "d", "e">> \o CRLF
        \o T_Location \o <<":", " ">> \o T_ws \o fields[T_Host] \o form.path \o CRLF
        \o T_SecOrigin \o <<":", " ">> \o fields[T_Origin] \o CRLF
        \o (IF HasField(form.raw_fields, T_Protocol)
            THEN T_Protocol \o <<":", " ">> \o fields[T_Protocol] \o CRLF
            ELSE <<>>)
        \o CRLF
        \o ExpectedDigest(data)

Accepted == ws.n = 1 /\ handshake /\ Len(written) = 1

\* C15: the response written for an accepted request is the laid out
\* response, ending with the 16 challenge bytes and nothing after them.
C15_ResponseLayout == Accepted => written[1] = LayoutOf(ws.data)

\* What is written is the laid out response followed by one more CRLF.
ResponseLayoutThenCRLF == Accepted => written[1] = LayoutOf(ws.data) \o CRLF

ResponseWithProtocolReached ==
    /\ Accepted
    /\ HasField(websocket_validate_handshake(str_split(ws.data, CRLF)).raw_fields, T_Protocol)

(***************************************************************************)
(* SpecFrames: the connection completes the example handshake and then     *)
(* reads frame bytes, in chunks of any split.                              *)
(***************************************************************************)
StreamBytes == {NUL, XFF, "a"}

HelloWorld ==
    <<NUL, "h", "e", "l", "l", "o", XFF, NUL, "w", "o", "r", "l", "d", XFF>>
HelloWorldHead == <<NUL, "h", "e", "l", "l", "o", XFF, NUL, "w">>
HelloWorldTail == <<"o", "r", "l", "d", XFF>>
EAcuteHead == <<NUL, "x", "xC3">>
EAcuteTail == <<"xA9", XFF>>
LoneContinuation == <<NUL, "xA9", XFF>>     \* a frame whose payload is not UTF-8
AboveLatin1 == <<NUL, "xC4", "x80", XFF>>   \* a frame whose payload is U+0100

StreamChunks ==
    (SeqsUpTo(StreamBytes, MaxChunk) \ {<<>>})
        \cup {HelloWorld, HelloWorldHead, HelloWorldTail, EAcuteHead, EAcuteTail,
              LoneContinuation, AboveLatin1}

NextFrames ==
    /\ ws.n < MaxFrameReads + 1
    /\ \E data \in (IF handshake THEN StreamChunks ELSE {ClassicRequest}) : handle_read(data)

SpecFrames == Init /\ [][NextFrames]_vars

(***************************************************************************)
(* Claims about frame decoding (SpecFrames).                               *)
(***************************************************************************)
FirstIndex(s, b) == CHOOSE i \in 1..Len(s) : s[i] = b /\ \A j \in 1..(i - 1) : s[j] # b

\* The stream cut after each end marker: the pieces that end with 0xFF,
\* without that byte.
RECURSIVE Segments(_)
Segments(s) ==
    IF XFF \notin Range(s) THEN <<>>
    ELSE LET e == FirstIndex(s, XFF)
         IN  <<SubSeq(s, 1, e - 1)>> \o Segments(SubSeq(s, e + 1, Len(s)))

\* The bytes strictly between the start marker and the end of a piece.
PayloadOf(seg) == SubSeq(seg, FirstIndex(seg, NUL) + 1, Len(seg))

\* No end marker of the stream comes without a start marker before it.
NoStrayEnd(s) == \A i \in 1..Len(Segments(s)) : NUL \in Range(Segments(s)[i])

\* The payload is UTF-8 for code points up to 255.
Decodable(seg) == utf8_to_latin1(PayloadOf(seg)).err = "none"

\* The messages of the spans that can be decoded, in stream order.
MessagesOf(s) ==
    LET good == SelectSeq(Segments(s), Decodable)
    IN  [i \in 1..Len(good) |-> utf8_to_latin1(PayloadOf(good[i])).out]

\* C16: in framing mode every complete 0x00 ... 0xFF span of the stream
\* read so far has given one message, its payload the decoded bytes
\* between the markers, in stream order, however the stream was split
\* across reads.
C16_FrameOrderChunkIndependence ==
    (handshake /\ NoStrayEnd(stream)) => packet_inbuf = MessagesOf(stream)

\* The same for the streams all of whose payloads can be decoded, and for
\* every stream the messages are those of the stream read in one piece.
FramesDecodedInOrder ==
    handshake =>
        /\ packet_inbuf = websocket_process_inbuf(stream, <<>>).packets
        /\ (NoStrayEnd(stream) /\ \A i \in 1..Len(Segments(stream)) :
                                      Decodable(Segments(stream)[i]))
               => packet_inbuf = MessagesOf(stream)

\* hello and world arrived in two reads that split the second frame.
HelloWorldSplitReached ==
    /\ ws.n = 3
    /\ ws.data = HelloWorldTail
    /\ stream = HelloWorld
    /\ packet_inbuf = << <<"h", "e", "l", "l", "o">>, <<"w", "o", "r", "l", "d">> >>

\* A two-byte UTF-8 payload split across two reads has been decoded.
EAcuteSplitReached ==
    /\ ws.n = 3
    /\ stream = EAcuteHead \o EAcuteTail
    /\ packet_inbuf = << <<"x", "xE9">> >>

\* The stream read in framing mode begins with an end marker.
BeginsWithEnd == handshake /\ stream # <<>> /\ stream[1] = XFF

\* C17: a stream that begins with an unmatched 0xFF has met the fatal
\* frame-ordering error at the last read and has given no message,
\* whether or not a 0x00 has arrived yet.
C17_StrayEndDetected ==
    BeginsWithEnd => (ws.raised = "Exception" /\ packet_inbuf = <<>>)

\* Such a stream never gives a message, and its reads meet the
\* frame-ordering error exactly from the read that brings the first 0x00
\* on; until then they end without an error.
StrayEndDetectedOnceStartArrives ==
    BeginsWithEnd
        => /\ packet_inbuf = <<>>
           /\ (ws.raised = "Exception") <=> (NUL \in Range(stream))
           /\ ws.raised \in {"none", "Exception"}

\* The end marker came in one read, without error, and the start marker in
\* the next, with the error.
StrayEndThenStartReached ==
    /\ ws.n = 3
    /\ BeginsWithEnd
    /\ Len(stream) > Len(ws.data)
    /\ NUL \notin Range(SubSeq(stream, 1, Len(stream) - Len(ws.data)))
    /\ NUL \in Range(ws.data)
    /\ ws.raised = "Exception"
    /\ packet_inbuf = <<>>

\* C18: once a read has met the frame-ordering error the connection is
\* closed, and no message is decoded on it afterwards.
C18_OrderViolationCloses ==
    /\ [](ws.raised = "Exception" => closed)
    /\ [][ws.raised = "Exception" => packet_inbuf' = packet_inbuf]_vars

\* After the error the connection stays open, and no later read gets past
\* the end marker at the head of inbuf.
OrderViolationSticks ==
    [][ws.raised = "Exception"
           => (ws'.raised = "Exception" /\ packet_inbuf' = packet_inbuf /\ ~closed')]_vars

(***************************************************************************)
(* WebSocketConnection.send(data), and SpecSend: the connection sends      *)
(* payloads before and after it completes the example handshake.           *)
(***************************************************************************)
send(data) ==
    /\ written' = Append(written, send_payload(handshake, data))
    /\ snd' = [n |-> snd.n + 1, data |-> data, handshake |-> handshake,
               at |-> Len(written) + 1]
    /\ UNCHANGED <<handshake, inbuf, packet_inbuf, closed, ws, stream, mudvars, ch, fp, st>>

\* Payloads in the internal one-byte-per-character form: a, e acute.
PayloadChars == {"a", "xE9"}
Payloads == SeqsUpTo(PayloadChars, MaxPayload)

NextSend ==
    \/ ws.n < 1 /\ handle_read(ClassicRequest)
    \/ snd.n < MaxSends /\ \E data \in Payloads : send(data)

SpecSend == Init /\ [][NextSend]_vars

(***************************************************************************)
(* Claims about sending (SpecSend).                                        *)
(***************************************************************************)
\* The UTF-8 bytes of a payload over PayloadChars.
Utf8Of(data) ==
    Concat([i \in 1..Len(data) |-> IF data[i] = "xE9" THEN <<"xC3", "xA9">> ELSE <<data[i]>>])

\* What the last send call wrote.
LastSent == written[snd.at]

\* C19: send writes the data as it is while the handshake is not complete,
\* and once it is complete writes 0x00, the payload in UTF-8, 0xFF.
C19_OutboundFraming ==
    snd.n > 0
        => LastSent = IF snd.handshake
                         THEN <<NUL>> \o Utf8Of(snd.data) \o <<XFF>>
                         ELSE snd.data

\* What is written after the handshake is the payload in UTF-8, without
\* the two marker bytes.
OutboundUnframed ==
    snd.n > 0 => LastSent = IF snd.handshake THEN Utf8Of(snd.data) ELSE snd.data

SentAfterHandshakeReached ==
    snd.n > 0 /\ snd.handshake /\ snd.data = <<"a", "xE9">>

(***************************************************************************)
(* MUDConnection.on_close(), and SpecClose: chunks arrive and states are   *)
(* put on the stack until the connection closes.                           *)
(***************************************************************************)
E_close == "mud.connection.close"

on_close ==
    /\ published' = Append(published, E_close)
    /\ hist' = Remember(hist, [op |-> "on_close", arg |-> None, pre |-> state_stack,
                               post |-> state_stack, ret |-> None,
                               raised |-> "none", focus |-> <<>>])
    /\ UNCHANGED <<line_inbuf, state_stack, reads, delivered, rd, focus, wsvars, ch, fp, st>>

\* The connection is closed once: no event follows the close.
Open == E_close \notin Range(published)

NextClose ==
    \/ Open /\ \E data \in Chunks : on_telnet_data(data)
    \/ Open /\ \E s \in States : stack_append(s)
    \/ Open /\ on_close

SpecClose == Init /\ [][NextClose]_vars

(***************************************************************************)
(* Claims about closing (SpecClose).                                       *)
(***************************************************************************)
\* C20: when the connection closes, on_losefocus is called on the state on
\* top of the stack, if any, and the stack is then discarded, so that no
\* state is left to receive a line.
C20_CloseSemantics ==
    (hist # <<>> /\ Last.op = "on_close")
        => /\ Last.pre # <<>> => Last.focus = <<Lose(Top(Last.pre))>>
           /\ state_stack = <<>>

\* on_close calls no focus callback and leaves the stack as it was.
CloseOnlyPublishes ==
    (hist # <<>> /\ Last.op = "on_close")
        => /\ Last.focus = <<>>
           /\ state_stack = Last.pre
           /\ published = <<E_close>>

ClosedWithStateOnTopReached ==
    hist # <<>> /\ Last.op = "on_close" /\ Len(state_stack) = 2

(***************************************************************************)
(* MUDConnection.on_connect(), and SpecLife: the life of one connection,   *)
(* from on_connect through its reads to on_close.  The second argument of  *)
(* every publish call is the connection itself; with one connection in the *)
(* model, published keeps the event names.                                 *)
(***************************************************************************)
E_connect == "mud.connection.connect"

on_connect ==
    /\ published' = Append(published, E_connect)
    /\ UNCHANGED <<line_inbuf, state_stack, reads, delivered, rd, hist, focus,
                   wsvars, ch, fp, st>>

Connected == E_connect \in Range(published)

NextLife ==
    \/ ~Connected /\ on_connect
    \/ Connected /\ Open /\ \E data \in Chunks : on_telnet_data(data)
    \/ Connected /\ Open /\ \E s \in States : stack_append(s)
    \/ Connected /\ Open /\ on_close

SpecLife == Init /\ [][NextLife]_vars

(***************************************************************************)
(* Claims about the lifecycle events (SpecLife).                           *)
(***************************************************************************)
\* The reads that brought data.
DataReads == {i \in 1..Len(reads) : reads[i].data # <<>>}

\* The events published between the connect and the close event.
ReadEvents == SelectSeq(published, LAMBDA e : e \notin {E_connect, E_close})

\* C21: the connection publishes the connect event once, first; one event
\* for every read that brought data; the close event once, last; and
\* nothing else.
C21_LifecycleEvents ==
    /\ published # <<>> => published[1] = E_connect
    /\ Len(SelectSeq(published, LAMBDA e : e = E_connect)) <= 1
    /\ Len(SelectSeq(published, LAMBDA e : e = E_close)) <= 1
    /\ ~Open => published[Len(published)] = E_close
    /\ Len(ReadEvents) = Cardinality(DataReads)

\* What the connection publishes: the connect event, then nothing until
\* the close event, however many reads lie between.
OnlyConnectAndClosePublished ==
    published \in {<<>>, <<E_connect>>, <<E_connect, E_close>>}

ReadsBetweenConnectAndCloseReached ==
    /\ published = <<E_connect, E_close>>
    /\ Len(reads) = 2
    /\ Len(delivered) >= 2

(***************************************************************************)
(* The States in focus.                                                    *)
(***************************************************************************)
\* No method of the connection calls on_gainfocus or on_losefocus
\* (network.py 40-77), and nothing else in the source does: the set of
\* States that have gained focus and not lost it is empty in every
\* reachable state, under every specification of this module.
NoStateEverInFocus == focus = {}

(***************************************************************************)
(*            FlashPolicyConnection (src/mud/protocol/flash.py)            *)
(***************************************************************************)
\* FLASH_POLICY_RESPONSE, as the source spells it: its last bytes are the
\* four characters /x00 and a line feed.
FLASH_POLICY_RESPONSE ==
    <<"<", "c", "r", "o", "s", "s", "-", "d", "o", "m", "a", "i", "n", "-",
      "p", "o", "l", "i", "c", "y", ">", "x0A", " ", " ", " ", " ", "<", "a",
      "l", "l", "o", "w", "-", "a", "c", "c", "e", "s", "s", "-", "f", "r",
      "o", "m", "-", "d", "o", "m", "a", "i", "n", "=", "\"", "*", "\"", " ",
      "r", "o", "-", "p", "o", "r", "t", "=", "\"", "*", "\"", " ", "/", ">",
      "x0A", "<", "/", "c", "r", "o", "s", "s", "-", "d", "o", "m", "a", "i",
      "n", "-", "p", "o", "l", "i", "c", "y", ">", "/", "x", "0", "0", "x0A">>

T_PolicyRequest ==
    <<"<", "p", "o", "l", "i", "c", "y", "-", "f", "i", "l", "e", "-", "r",
      "e", "q", "u", "e", "s", "t", "/", ">">>

\* s.strip(): s without its leading and trailing whitespace.
str_strip(s) ==
    LET inked == {i \in 1..Len(s) : ~isspace(s[i])}
    IN  IF inked = {} THEN <<>>
        ELSE SubSeq(s, CHOOSE i \in inked : \A j \in inked : i <= j,
                       CHOOSE i \in inked : \A j \in inked : j <= i)

\* A validation that forgets to strip the data.
flash_policy_validate_unstripped(raw_handshake) ==
    Append(T_PolicyRequest, NUL) \in Range(str_split(raw_handshake, CRLF))

(***************************************************************************)
(* flash_policy_validate:                                                  *)
(*     handshake = raw_handshake.strip().split("\r\n")                     *)
(*     "<policy-file-request/>\x00" in handshake                           *)
(***************************************************************************)
flash_policy_validate(raw_handshake) ==
    LET lines == str_split(str_strip(raw_handshake), CRLF)
    IN  Append(T_PolicyRequest, NUL) \in Range(lines)

\* flash_policy_respond: self.outbuf += self.server.flash_policy, and the
\* server's flash_policy is FLASH_POLICY_RESPONSE whatever policy it was
\* constructed with.
flash_policy_respond(outbuf) == outbuf \o FLASH_POLICY_RESPONSE

(***************************************************************************)
(* FlashPolicyConnection.handle_read(data).  outbuf is the output buffer   *)
(* of the base class Connection, empty on a new connection; calls keeps    *)
(* the order of the two calls the method makes.                            *)
(***************************************************************************)
flash_handle_read(data) ==
    /\ ~fp.closed
    /\ LET valid == flash_policy_validate(data)
       IN  fp' = [outbuf |-> IF valid THEN flash_policy_respond(fp.outbuf) ELSE fp.outbuf,
                  closed |-> TRUE,
                  reads  |-> Append(fp.reads, data),
                  calls  |-> fp.calls
                               \o (IF valid THEN <<"flash_policy_respond">> ELSE <<>>)
                               \o <<"close">>]
    /\ UNCHANGED <<mudvars, wsvars, ch, st>>

(***************************************************************************)
(* SpecFlash: one connection to the policy server.  The first read is put  *)
(* together from a few pieces.                                             *)
(***************************************************************************)
FlashPieces == {T_PolicyRequest, <<NUL>>, CRLF, <<LF>>, <<" ">>, <<"x">>}

FlashInputs == {Concat(ps) : ps \in SeqsUpTo(FlashPieces, MaxPieces)}

NextFlash == \E data \in FlashInputs : flash_handle_read(data)

SpecFlash == Init /\ [][NextFlash]_vars

(***************************************************************************)
(* Claims about the policy connection (SpecFlash).                         *)
(***************************************************************************)
\* The request line with its NUL lies at data[i..], as a whole line: what
\* precedes it is a CR LF or nothing but whitespace back to the start of
\* the data, what follows it is a CR LF or nothing but whitespace up to
\* the end of the data.
RequestLineAt(data, i) ==
    LET n == Len(T_PolicyRequest) + 1
    IN  /\ i + n - 1 <= Len(data)
        /\ SubSeq(data, i, i + n - 1) = Append(T_PolicyRequest, NUL)
        /\ \/ \A j \in 1..(i - 1) : data[j] \in Whitespace
           \/ (i > 2 /\ SubSeq(data, i - 2, i - 1) = CRLF)
        /\ \/ \A j \in (i + n)..Len(data) : data[j] \in Whitespace
           \/ (i + n + 1 <= Len(data) /\ SubSeq(data, i + n, i + n + 1) = CRLF)

HasRequestLine(data) == \E i \in 1..Len(data) : RequestLineAt(data, i)

\* C23: the first read closes the connection, whatever its data, and no
\* second read follows; the policy file is put into outbuf, before the
\* close, exactly when a line of the data is the policy-file request
\* followed by a NUL byte.
C23_FlashPolicyOnce ==
    /\ Len(fp.reads) <= 1
    /\ fp.closed <=> fp.reads # <<>>
    /\ fp.reads # <<>> =>
         IF HasRequestLine(fp.reads[1])
         THEN fp.outbuf = FLASH_POLICY_RESPONSE
                /\ fp.calls = <<"flash_policy_respond", "close">>
         ELSE fp.outbuf = <<>> /\ fp.calls = <<"close">>

\* The policy was sent for a request that came with other bytes around it.
C23_Witness ==
    /\ fp.closed
    /\ fp.outbuf = FLASH_POLICY_RESPONSE
    /\ Len(fp.reads[1]) > Len(T_PolicyRequest) + 2
    /\ fp.reads[1][1] # "<"

\* A read with the request text in it, but not as a line, got no policy.
RequestInsideLineRefusedReached ==
    /\ fp.closed
    /\ fp.outbuf = <<>>
    /\ str_find(fp.reads[1], Append(T_PolicyRequest, NUL)) # 0

(***************************************************************************)
(*                       Store (src/mud/store.py)                          *)
(*                                                                         *)
(* st.file is what the database file holds: the rows of pants_data that    *)
(* are committed.  st.tx is what the open sqlite3 connection sees: the     *)
(* committed rows and the changes of its open transaction.  The sqlite3    *)
(* module opens a transaction before an INSERT, UPDATE or DELETE;          *)
(* Connection.commit() writes it to the file and Connection.close() drops  *)
(* whatever is not committed.  A row is the data column of its key, the    *)
(* empty string where the table has no row for the key (json.dumps never   *)
(* gives an empty string).                                                 *)
(* History: st.n counts the calls, st.last names the last one, st.raised   *)
(* its exception, st.pre the rows the connection saw when it began.        *)
(***************************************************************************)
StoreKeys == {"k1", "k2"}
StoreData == {1, 2}
Absent == <<>>
NoRows == [k \in StoreKeys |-> Absent]

\* json.dumps of a small non-negative integer: its decimal digits.
json_dumps(data) == <<chr(48 + data)>>

NotConnected(s) == [s EXCEPT !.raised = "NotConnectedError"]

(***************************************************************************)
(* Store.commit(override)                                                  *)
(***************************************************************************)
commit_result(s, override) ==
    IF ~s.connected THEN NotConnected(s)
    ELSE IF ~override /\ ~s.dirty THEN [s EXCEPT !.raised = "none"]
    ELSE [s EXCEPT !.file = s.tx, !.dirty = FALSE, !.raised = "none"]

(***************************************************************************)
(* Store.close(): unsubscribe, commit(), con.close().                      *)
(***************************************************************************)
close_result(s) ==
    IF ~s.connected THEN NotConnected(s)
    ELSE LET c == commit_result([s EXCEPT !.subscribed = FALSE], FALSE)
         IN  [c EXCEPT !.tx = NoRows, !.connected = FALSE, !.raised = "none"]

(***************************************************************************)
(* Store.connect(filename), for the one database file of the server.       *)
(* A new file gets the table of SCHEMA, so the table is there whenever the *)
(* store is connected; CREATE TABLE is not part of a transaction.          *)
(***************************************************************************)
connect_result(s) ==
    LET c == IF s.connected THEN close_result(s) ELSE s
    IN  [c EXCEPT !.tx = c.file, !.connected = TRUE,
                  !.subscribed = TRUE, !.raised = "none"]

(***************************************************************************)
(* Store.__setitem__(key, data): INSERT or UPDATE, then dirty = True.      *)
(***************************************************************************)
setitem_result(s, key, data) ==
    IF ~s.connected THEN NotConnected(s)
    ELSE [s EXCEPT !.tx[key] = json_dumps(data), !.dirty = TRUE, !.raised = "none"]

(***************************************************************************)
(* Store.__delitem__(key): DELETE; the dirty flag is not touched.          *)
(***************************************************************************)
delitem_result(s, key) ==
    IF ~s.connected THEN NotConnected(s)
    ELSE [s EXCEPT !.tx[key] = Absent, !.raised = "none"]

StoreCall(name, r) ==
    /\ st.n < MaxStoreCalls
    /\ st' = [r EXCEPT !.n = st.n + 1, !.last = name, !.pre = st.tx]
    /\ UNCHANGED <<mudvars, wsvars, ch, fp>>

Store_connect == StoreCall("connect", connect_result(st))
Store_commit(override) == StoreCall("commit", commit_result(st, override))
Store_close == StoreCall("close", close_result(st))
Store_setitem(key, data) == StoreCall("__setitem__", setitem_result(st, key, data))
Store_delitem(key) == StoreCall("__delitem__", delitem_result(st, key))

NextStore ==
    \/ Store_connect
    \/ \E override \in BOOLEAN : Store_commit(override)
    \/ Store_close
    \/ \E key \in StoreKeys, data \in StoreData : Store_setitem(key, data)
    \/ \E key \in StoreKeys : Store_delitem(key)

SpecStore == Init /\ [][NextStore]_vars

(***************************************************************************)
(* Claims about the store (SpecStore).                                     *)
(***************************************************************************)
\* C24: when commit() returns, the file holds every change made through
\* __setitem__ and __delitem__, and close() leaves in the file all that
\* the connection saw when close() was called.
C24_StoreAutoCommit ==
    /\ (st.last = "commit" /\ st.raised = "none") => st.file = st.tx
    /\ (st.last = "close" /\ st.raised = "none") => st.file = st.pre

\* While the dirty flag is down, the only changes the connection holds
\* back from the file are deletions.
OnlyDeletionsGoUncommitted ==
    (st.connected /\ ~st.dirty)
        => \A k \in StoreKeys : st.tx[k] \in {st.file[k], Absent}

\* A deletion was left out of the file by commit().
DeletionNotCommittedReached ==
    /\ st.last = "commit" /\ st.raised = "none"
    /\ \E k \in StoreKeys : st.file[k] # Absent /\ st.tx[k] = Absent

(***************************************************************************)
(* SpecHandlers: states whose handlers change the stack or raise.  The     *)
(* stack is built, then reads arrive that each bring two lines or more.    *)
(***************************************************************************)
LineChunks ==
    {c \in Chunks : c # <<>> /\ c[Len(c)] = LF /\ Len(split_lines(c)) >= 2}

NextHandlers ==
    \/ reads = <<>> /\ \E s \in States \cup Handlers : stack_append(s)
    \/ \E data \in LineChunks : on_telnet_data(data)

SpecHandlers == Init /\ [][NextHandlers]_vars

(***************************************************************************)
(* Claims about handlers that act on their own connection (SpecHandlers).  *)
(***************************************************************************)
\* The on_readline calls of the last read, in call order.
LastCalls == [i \in 1..(Len(delivered) - rd.pre_out) |-> delivered[rd.pre_out + i]]

\* The stack a handler is meant to leave when it was entered with stack:
\* pop takes the top off, replace puts s2 in its place, push puts s2 on top.
StackLeftBy(state, stack) ==
    CASE state = "popper"   -> SubSeq(stack, 1, Len(stack) - 1)
      [] state = "replacer" -> [stack EXCEPT ![Len(stack)] = "s2"]
      [] state = "pusher"   -> Append(stack, "s2")
      [] OTHER              -> stack

\* The last read called no handler but those of states that leave the
\* stack alone or change it (states in S).
LastCallsWithin(S) ==
    /\ rd.n > 0
    /\ \A i \in 1..Len(LastCalls) : LastCalls[i].state \in S

\* Every call of the last read went to the top of the stack that the call
\* before it left; lines were left in the buffer only because the stack
\* was empty; and every queued line was either handed over or left.
ReResolved ==
    /\ \A i \in 1..Len(LastCalls) :
           /\ LastCalls[i].stack = IF i = 1 THEN LastRead.stack
                                   ELSE StackLeftBy(LastCalls[i - 1].state,
                                                    LastCalls[i - 1].stack)
           /\ LastCalls[i].stack # <<>>
           /\ LastCalls[i].state = Top(LastCalls[i].stack)
    /\ Len(LastCalls) + Len(line_inbuf) = Len(LastQueued)
    /\ line_inbuf # <<>> =>
           /\ state_stack = <<>>
           /\ line_inbuf = SubSeq(LastQueued, 1, Len(line_inbuf))

\* C25: when handlers push, pop or replace states while lines are queued,
\* every remaining line goes to the state on top at the moment it is
\* dispatched; lines remain in the buffer only when a handler has left the
\* stack empty.
C25_ReentrantDispatch ==
    LastCallsWithin(States \cup {"popper", "replacer", "pusher"}) => ReResolved

\* The same for handlers that pop or replace.
TopReResolvedAfterPopAndReplace ==
    LastCallsWithin(States \cup {"popper", "replacer"}) => ReResolved

\* A handler replaced itself and the next line of the read went to the
\* new top.
ReplacedMidDispatchReached ==
    /\ rd.n > 0 /\ Len(LastCalls) >= 2
    /\ LastCalls[1].state = "replacer"
    /\ LastCalls[2].state = "s2"

\* A handler popped the last state and the rest of the read stayed queued.
EmptiedMidDispatchReached ==
    /\ rd.n > 0 /\ Len(LastCalls) >= 1
    /\ LastCalls[Len(LastCalls)].state = "popper"
    /\ state_stack = <<>>
    /\ line_inbuf # <<>>

\* The exception that leaves the handler of state when it is given line.
RaisedBy(state, line) ==
    CASE state = "thrower" -> "ValueError"
      [] state = "parser"  -> IF \E i \in 1..Len(line) : line[i] = "a"
                              THEN "none" ELSE "IndexError"
      [] OTHER             -> "none"

\* C26: an exception raised by a handler leaves on_telnet_data as it is,
\* and the line that was being handled is not handed over again: it is
\* not put back into the buffer.
C26_HandlerExceptionPropagates ==
    (rd.n > 0 /\ Len(LastCalls) > 0)
        => LET last == LastCalls[Len(LastCalls)]
           IN  /\ RaisedBy(last.state, last.line) # "none"
                    => rd.raised = RaisedBy(last.state, last.line)
               /\ Len(LastCalls) + Len(line_inbuf) = Len(LastQueued)

\* The same for every exception that is not an IndexError.
OtherExceptionsPropagate ==
    (rd.n > 0 /\ Len(LastCalls) > 0)
        => LET last == LastCalls[Len(LastCalls)]
           IN  /\ RaisedBy(last.state, last.line) \notin {"none", "IndexError"}
                    => rd.raised = RaisedBy(last.state, last.line)
               /\ Len(LastCalls) + Len(line_inbuf) = Len(LastQueued)

\* A ValueError left on_telnet_data with a line still queued.
ValueErrorPropagatedReached ==
    /\ rd.n > 0 /\ rd.raised = "ValueError"
    /\ line_inbuf # <<>>

(***************************************************************************)
(* Claims about bytes that follow the last line feed of a read (Spec).     *)
(***************************************************************************)
\* The lines the connection has taken in: those handed to a state and
\* those still queued.
LinesTakenIn == SeqToBag(LinesFrom(delivered, 0)) (+) SeqToBag(line_inbuf)

\* C27: the bytes after the last line feed of a read are kept and begin
\* the next line, so the lines the connection takes in are the spans
\* between the line feeds of the whole stream, each of them once.
C27_PartialLinesRetained ==
    LinesTakenIn = SeqToBag(split_lines(StreamOf(reads)))

\* The lines taken in are the spans between the line feeds of each read
\* taken by itself: what follows the last line feed of a read is dropped.
LinesCutAtReadBoundaries ==
    LinesTakenIn = SeqToBag(Concat([i \in 1..Len(reads) |-> split_lines(reads[i].data)]))

\* A line that began in one read and ended in the next reached a state
\* without its beginning.
LineLostItsBeginningReached ==
    /\ Len(reads) = 2
    /\ reads[1].data = <<"a">>
    /\ reads[2].data = <<"a", LF>>
    /\ LinesFrom(delivered, 0) = << <<"a">> >>

(***************************************************************************)
(* Claims about the Location header (SpecWS).                              *)
(***************************************************************************)
\* The header line 'Sec-WebSocket-Location: ws://<Host><path>' that a
\* request calls for, between the CRLF before it and the CRLF after it.
LocationLine(data) ==
    LET form   == websocket_validate_handshake(str_split(data, CRLF))
        fields == websocket_validate_fields(form.raw_fields).fields
    IN  CRLF \o T_Location \o <<":", " ">> \o T_ws \o fields[T_Host] \o form.path \o CRLF

ResponseWithLocation ==
    /\ Len(written) = 1
    /\ ws.raised = "none"
    /\ str_find(written[1], LocationLine(ws.data)) # 0

\* C28: every request that passes the validation of its form, fields and
\* keys gets a response with the Location header ws://<Host><path>,
\* whether its Host value has a port, has none, or has several colons.
C28_LocationFromHost ==
    (ws.n = 1 /\ ValidRequest(ws.data)) => ResponseWithLocation

\* The same, for the requests whose Host value is host:port (one colon).
LocationForHostWithPort ==
    (ws.n = 1 /\ ValidRequest(ws.data) /\ HostHasPort(ws.data)) => ResponseWithLocation

\* A valid request whose Host value has no port got no response.
HostWithoutPortRaisedReached ==
    /\ ws.n = 1 /\ ValidRequest(ws.data)
    /\ Len(str_split(websocket_validate_fields(
              websocket_validate_handshake(str_split(ws.data, CRLF)).raw_fields
          ).fields[T_Host], <<":">>)) = 1
    /\ ws.raised = "ValueError"
    /\ written = <<>>

(***************************************************************************)
(* Claims about the challenge buffer (SpecChallenge).                      *)
(***************************************************************************)
\* bytes, four of them, are n as an unsigned big-endian integer: the first
\* two bytes are n div 65536 and the last two n mod 65536.  With
\* n = hi * 100000 + lo and 100000 = 65536 + 34464, n div 65536 is
\* hi + (hi * 34464 + lo) div 65536.
IsBigEndianOf(bytes, n) ==
    LET t == n.hi * 34464 + n.lo
    IN  /\ Len(bytes) = 4
        /\ ord(bytes[1]) * 256 + ord(bytes[2]) = n.hi + (t \div 65536)
        /\ ord(bytes[3]) * 256 + ord(bytes[4]) = t % 65536

\* C29: the buffer that is hashed is 16 bytes: num1 in 4 bytes, big-endian,
\* num2 in 4 bytes, big-endian, and the 8 final bytes as they came; every
\* number that passed the key checks is at most 4294967295.
C29_ChallengeBufferLayout ==
    \A i \in 1..Len(ch.results) :
        LET r == ch.results[i]
        IN  /\ r.num1.res = "ok" => ~num_gt(r.num1.num, MaxU32)
            /\ r.num2.res = "ok" => ~num_gt(r.num2.num, MaxU32)
            /\ (r.num1.res = "ok" /\ r.num2.res = "ok") =>
                   /\ r.response.res = "ok"
                   /\ Len(r.response.challenge) = 16
                   /\ IsBigEndianOf(SubSeq(r.response.challenge, 1, 4), r.num1.num)
                   /\ IsBigEndianOf(SubSeq(r.response.challenge, 5, 8), r.num2.num)
                   /\ SubSeq(r.response.challenge, 9, 16) = ch.final_bytes

\* The largest number a key can give, 4294967295, was packed next to the
\* number of the first example key, before binary final bytes.
C29_Witness ==
    /\ ch.results # <<>>
    /\ ch.key1 = K_max
    /\ ch.key2 = K_classic1
    /\ ch.final_bytes = F_binary
    /\ ch.results[1].response.challenge
         = <<XFF, XFF, XFF, XFF, "1", "n", "A", "x13">> \o F_binary

(***************************************************************************)
(* Claims about bytes outside frames (SpecFrames).                         *)
(***************************************************************************)
\* What is left of the stream after its first k end markers.
RECURSIVE AfterFrames(_, _)
AfterFrames(s, k) ==
    IF k = 0 THEN s
    ELSE AfterFrames(SubSeq(s, FirstIndex(s, XFF) + 1, Len(s)), k - 1)

\* C30: the frames extracted so far took with them every byte of the
\* stream up to the end marker of the last one: inbuf holds what came
\* after that end marker and nothing else, and each message is made of
\* the bytes between the markers of its frame, the bytes in front of the
\* start marker left out.
C30_BytesOutsideFramesDiscarded ==
    handshake =>
        LET k == Len(packet_inbuf)
        IN  /\ k <= Len(Segments(stream))
            /\ inbuf = AfterFrames(stream, k)
            /\ \A i \in 1..k :
                   /\ NUL \in Range(Segments(stream)[i])
                   /\ packet_inbuf[i] = utf8_to_latin1(PayloadOf(Segments(stream)[i])).out

\* A frame with a byte in front of its start marker and a byte behind its
\* end marker was extracted: the first is gone, the second is kept.
C30_Witness ==
    /\ handshake
    /\ stream = <<"a", NUL, XFF, "a">>
    /\ packet_inbuf = << <<>> >>
    /\ inbuf = <<"a">>
    /\ ws.raised = "none"

(***************************************************************************)
(* Claims about the decoder mode (SpecWS).                                 *)
(***************************************************************************)
\* C31: handshake goes from False to True only, in a read whose
\* websocket_process_handshake returned True, and never back; while it is
\* False inbuf and packet_inbuf stay empty; once it is True every read is
\* taken as frame bytes: it is appended to the stream of inbuf and nothing
\* is written in reply.
C31_ModeMonotonicGatesFraming ==
    /\ [][handshake' # handshake
            => /\ ~handshake /\ handshake'
               /\ ws'.n = ws.n + 1 /\ ~ws'.framing
               /\ websocket_process_handshake(FALSE, ws'.data).res = "True"]_vars
    /\ [](~handshake => (inbuf = <<>> /\ packet_inbuf = <<>> /\ stream = <<>>))
    /\ [][(handshake /\ ws'.n # ws.n)
            => /\ handshake'
               /\ ws'.framing
               /\ stream' = stream \o ws'.data
               /\ written' = written]_vars

\* After the handshake a second request arrived and was taken as frame
\* bytes: it lies in inbuf, unanswered.
RequestAfterHandshakeBufferedReached ==
    /\ handshake
    /\ ws.n = 2 /\ ws.framing
    /\ ws.data = ClassicRequest
    /\ inbuf = ClassicRequest
    /\ Len(written) = 1

\* A first read that raised left the mode as it was, and the handshake was
\* completed by the second read.
HandshakeOnSecondReadReached ==
    /\ handshake
    /\ ws.n = 2 /\ ~ws.framing
    /\ inbuf = <<>> /\ packet_inbuf = <<>>

(***************************************************************************)
(* Claims about frames that cannot be decoded (SpecFrames).                *)
(***************************************************************************)
\* The complete spans of the stream that cannot be decoded.
Undecodable(s) == {i \in 1..Len(Segments(s)) : ~Decodable(Segments(s)[i])}

\* C32: a complete frame whose payload is not UTF-8, or holds a code point
\* above 255, is dropped as that one frame: it gives no message, its bytes
\* are gone from inbuf, which holds only what follows the last end marker
\* of the stream, and the well-formed frames behind it have been decoded.
C32_UndecodableFrameDroppedAlone ==
    (handshake /\ NoStrayEnd(stream) /\ Undecodable(stream) # {}) =>
        /\ Len(packet_inbuf) <= Len(Segments(stream)) - Cardinality(Undecodable(stream))
        /\ inbuf = AfterFrames(stream, Len(Segments(stream)))
        /\ \A i \in Undecodable(stream) :
               \A j \in (i + 1)..Len(Segments(stream)) :
                   Decodable(Segments(stream)[j]) =>
                       \E m \in 1..Len(packet_inbuf) :
                           packet_inbuf[m] = utf8_to_latin1(PayloadOf(Segments(stream)[j])).out

\* What the code does with such a frame: the read that completes it
\* raises the codec's error, the frame gives no message, and it stays in
\* inbuf with everything that arrives after it.
UndecodableFrameStaysInInbuf ==
    (handshake /\ NoStrayEnd(stream) /\ Undecodable(stream) # {}) =>
        LET first == CHOOSE i \in Undecodable(stream) :
                         \A j \in Undecodable(stream) : i <= j
        IN  /\ ws.raised \in {"UnicodeDecodeError", "UnicodeEncodeError"}
            /\ Len(packet_inbuf) = first - 1
            /\ inbuf = AfterFrames(stream, first - 1)

\* A frame with a code point above 255 was read, then hello and world:
\* the second read raised too and both messages are missing.
FramesBehindUndecodableLostReached ==
    /\ handshake
    /\ stream = AboveLatin1 \o HelloWorld
    /\ ws.n = 3
    /\ ws.raised = "UnicodeEncodeError"
    /\ packet_inbuf = <<>>
    /\ inbuf = stream

(***************************************************************************)
(* Claims about what a normal return leaves in inbuf (SpecFrames).         *)
(***************************************************************************)
\* The spans of the stream that end with 0xFF and hold a start marker.
FramesArrived(s) == {i \in 1..Len(Segments(s)) : NUL \in Range(Segments(s)[i])}

\* C33: when the websocket_process_inbuf of the last read returned
\* normally, inbuf does not hold both a 0x00 and a 0xFF; every frame of
\* the stream whose end marker has arrived has given its message; and what
\* is left in inbuf is at most one frame in the making: one more end
\* marker completes at most one message.
C33_NoCompleteFrameLeft ==
    (handshake /\ ws.framing /\ ws.raised = "none") =>
        /\ ~(NUL \in Range(inbuf) /\ XFF \in Range(inbuf))
        /\ Len(packet_inbuf) = Cardinality(FramesArrived(stream))
        /\ Len(websocket_process_inbuf(Append(inbuf, XFF), <<>>).packets) <= 1

\* One read brought a complete frame and the beginning of the next: the
\* first is in packet_inbuf, the beginning of the second waits in inbuf.
FrameMovedAndBeginningKeptReached ==
    /\ handshake /\ ws.framing /\ ws.raised = "none"
    /\ stream = HelloWorldHead
    /\ packet_inbuf = << <<"h", "e", "l", "l", "o">> >>
    /\ inbuf = <<NUL, "w">>

\* One read brought two complete frames and both were moved.
TwoFramesOfOneReadMovedReached ==
    /\ handshake /\ ws.framing /\ ws.raised = "none"
    /\ ws.n = 2
    /\ stream = HelloWorld
    /\ Len(packet_inbuf) = 2
    /\ inbuf = <<>>

====
